---- MODULE Spec2Model ----
(***************************************************************************)
(* channel2pdf: the report pipeline (core_service.generate_report), the    *)
(* client factory (telegram_client.get_client) and the post functions      *)
(* (fetch_posts.get_demo_posts / fetch_posts / sort_posts), the document   *)
(* markup (pdf_builder), the command line (main.py), the log parser        *)
(* (log_parser.py) and the web handlers (web_app.py).                      *)
(*                                                                         *)
(* Conventions                                                             *)
(*   - a Python str is a sequence of one-character strings;                *)
(*   - an optional value is None (the empty tuple) or Some(x) = <<x>>;     *)
(*   - a datetime.date is a day number; a window is a pair of day numbers; *)
(*   - a raised exception is the name of its class.                        *)
(***************************************************************************)
EXTENDS Integers, Sequences, FiniteSets, TLC

VARIABLES
    pc,            \* position of the running call
    channel,       \* generate_report argument: channel
    date_from,     \* generate_report argument: date_from
    date_to,       \* generate_report argument: date_to
    sort_type,     \* generate_report / sort_posts argument: sort_type
    ascending,     \* generate_report / sort_posts argument: ascending
    config,        \* the config module's values (read-only)
    posts,         \* local `posts` (None while unbound); sort_posts argument
    sorted_posts,  \* local `sorted_posts` (None while unbound)
    client,        \* local `client`: None until get_client has returned one
    conn,          \* the Telegram connection: "none", "open" or "closed"
    cause,         \* why the message source failed ("client": get_client), "" if not
    exc,           \* the exception in flight inside generate_report, "" if none
    calls,         \* the collaborator calls made so far, in order
    dirs,          \* directories created by the call
    files,         \* document files written by the call
    outcome,       \* "running", "returned", or the class of the raised exception
    filename,      \* generate_report argument: filename (None if not given)
    html,          \* the document create_html returned (None before)
    feed,          \* fetch_posts called on its own: what the client yields
    consumed,      \* fetch_posts: messages taken from client.iter_messages
    md_text,       \* clean_markdown called on its own: its argument
    md_once,       \* clean_markdown(md_text)
    md_twice,      \* clean_markdown(clean_markdown(md_text))
    http_name,     \* GET /files/{filename}: the name asked for
    fs,            \* GET /files/{filename}: what the name is in GENERATED_DIR
    response,      \* GET /files/{filename}: the response (None before)
    exit_code,     \* main.py: the status the process exits with (None before)
    env,           \* config.ENV as web_app imported it ("" outside the web app)
    log,           \* server.log: None if there is no file, else Some(its lines)
    data,          \* log_parser: the AnalyticsData being filled (None before)
    reqs,          \* POST /generate: the requests being handled, by number
    events         \* analytics: the lifecycle events written so far, in order

vars == <<pc, channel, date_from, date_to, sort_type, ascending, config, posts,
          sorted_posts, client, conn, cause, exc, calls, dirs, files, outcome,
          filename, html, feed, consumed, md_text, md_once, md_twice,
          http_name, fs, response, exit_code, env, log, data, reqs, events>>

\* The variables of the command line, the analytics page and the web requests.
front == <<exit_code, env, log, data, reqs, events>>

\* The variables of the calls made on their own, which generate_report leaves alone.
others == <<feed, consumed, md_text, md_once, md_twice, http_name, fs, response,
           front>>

----------------------------------------------------------------------------
(* Values *)

None == <<>>
Some(x) == <<x>>
Get(o) == o[1]

FetchIdle == feed = None /\ consumed = 0

MarkdownIdle == md_text = <<>> /\ md_once = None /\ md_twice = None

DownloadIdle == http_name = <<>> /\ fs = None /\ response = None
CliIdle == exit_code = None
LogIdle == env = "" /\ log = None /\ data = None
WebIdle == reqs = <<>> /\ events = <<>>
FrontIdle == CliIdle /\ LogIdle /\ WebIdle

MaxPosts == 3

Days == 0..1
SortKeys == {"date", "reactions", "views"}
SortTypes == SortKeys \cup {"rating"}

Reaction(e, c) == [emoji |-> e, count |-> c]

Post(d, t, v, r) == [date |-> d, text |-> t, views |-> v, reactions |-> r]

RECURSIVE SumCounts(_)
SumCounts(rs) == IF rs = <<>> THEN 0 ELSE Head(rs).count + SumCounts(Tail(rs))

Reverse(s) == [i \in 1..Len(s) |-> s[Len(s) + 1 - i]]

----------------------------------------------------------------------------
(* Python's sorted(iterable, key=..., reverse=...).  The list sort is      *)
(* stable; with reverse=True it reverses the list, sorts it ascending and  *)
(* reverses the result, which keeps equal keys in their original order.    *)

\* ks is the sequence of keys; the result lists the positions 1..Len(ks) in
\* sorted order.  A position is inserted after every position with a key
\* less than or equal to its own, so equal keys keep their order.
RECURSIVE InsertByKey(_, _, _)
InsertByKey(i, p, ks) ==
    IF p = <<>> THEN <<i>>
    ELSE IF ks[i] < ks[Head(p)] THEN <<i>> \o p
    ELSE <<Head(p)>> \o InsertByKey(i, Tail(p), ks)

RECURSIVE StableOrder(_, _)
StableOrder(n, ks) ==
    IF n = 0 THEN <<>> ELSE InsertByKey(n, StableOrder(n - 1, ks), ks)

----------------------------------------------------------------------------
(* fetch_posts.sort_posts: the three key functions *)

key_date(post) == post.date

get_reactions_len(post) == Len(post.reactions)

get_reactions_sum(post) == SumCounts(post.reactions)

get_views(post) == IF post.views # None THEN Get(post.views) ELSE 0

\* The key= argument of sorted, named by the sort type it is used for
\* ("count" is fetch_posts' lambda x: x.count over a message's reactions).
KeyOf(key, post) ==
    IF key = "date" THEN key_date(post)
    ELSE IF key = "reactions" THEN get_reactions_sum(post)
    ELSE IF key = "views" THEN get_views(post)
    ELSE post.count

StableSort(s, key) ==
    LET ks == [i \in 1..Len(s) |-> KeyOf(key, s[i])]
        p == StableOrder(Len(s), ks)
    IN [i \in 1..Len(s) |-> s[p[i]]]

sorted_then_reversed(s, key, reverse) ==
    IF reverse THEN Reverse(StableSort(s, key)) ELSE StableSort(s, key)

sorted(s, key, reverse) ==
    IF reverse THEN Reverse(StableSort(Reverse(s), key)) ELSE StableSort(s, key)

sort_posts_in_place(ps, st, asc) ==
    IF st \in {"date", "reactions", "views"}
    THEN [raised |-> "", value |-> Some(sorted(ps, st, ~asc)),
          posts |-> sorted(ps, st, ~asc)]
    ELSE [raised |-> "ValueError", value |-> None, posts |-> ps]

sort_posts_direction_swapped(ps, st, asc) ==
    IF st \in {"date", "reactions", "views"}
    THEN [raised |-> "", value |-> Some(sorted(ps, st, asc)), posts |-> ps]
    ELSE [raised |-> "ValueError", value |-> None, posts |-> ps]

\* raised: the exception raised ("" if none); value: the returned list (None
\* if it raised); posts: the argument list as the call leaves it.
sort_posts(ps, st, asc) ==
    IF st = "date"
    THEN [raised |-> "", value |-> Some(sorted(ps, "date", ~asc)), posts |-> ps]
    ELSE IF st = "reactions"
    THEN [raised |-> "", value |-> Some(sorted(ps, "reactions", ~asc)), posts |-> ps]
    ELSE IF st = "views"
    THEN [raised |-> "", value |-> Some(sorted(ps, "views", ~asc)), posts |-> ps]
    ELSE [raised |-> "ValueError", value |-> None, posts |-> ps]

----------------------------------------------------------------------------
(* str helpers *)

\* str.isspace / the class \s of re.
IsSpace(c) == c \in {" ", "\n", "\t"}

RECURSIVE LStrip(_)
LStrip(s) == IF s # <<>> /\ IsSpace(Head(s)) THEN LStrip(Tail(s)) ELSE s

Strip(s) == Reverse(LStrip(Reverse(LStrip(s))))

Min(a, b) == IF a < b THEN a ELSE b

----------------------------------------------------------------------------
(* fetch_posts.get_demo_posts *)

\* The seven canned posts, without their dates.
DemoCatalog ==
    << [text |-> <<"1">>, views |-> Some(1543),
        reactions |-> <<Reaction("heart", 120), Reaction("thumb", 85),
                        Reaction("fire", 42)>>],
       [text |-> <<"2">>, views |-> Some(2847),
        reactions |-> <<Reaction("joy", 230), Reaction("heart", 156),
                        Reaction("party", 94)>>],
       [text |-> <<"3">>, views |-> Some(987), reactions |-> <<>>],
       [text |-> <<"4">>, views |-> None,
        reactions |-> <<Reaction("clap", 67), Reaction("100", 45)>>],
       [text |-> <<"5">>, views |-> None, reactions |-> <<>>],
       [text |-> <<"6">>, views |-> Some(543),
        reactions |-> <<Reaction("fire", 890), Reaction("heart", 723),
                        Reaction("eyes", 612)>>],
       [text |-> <<"7">>, views |-> Some(1876),
        reactions |-> <<Reaction("books", 234), Reaction("thumb", 187),
                        Reaction("think", 156)>>] >>

get_demo_posts_uncapped(df, dt) ==
    LET demo_posts == [k \in 1..Len(DemoCatalog) |->
                          Post(df + (k - 1), DemoCatalog[k].text,
                               DemoCatalog[k].views, DemoCatalog[k].reactions)]
        InRange(post) == df <= post.date /\ post.date <= dt
    IN SelectSeq(demo_posts, InRange)

get_demo_posts_open_end(df, dt) ==
    LET days_range == IF dt - df < 0 THEN 0 ELSE dt - df
        demo_posts == [k \in 1..Len(DemoCatalog) |->
                          Post(df + Min(k - 1, days_range), DemoCatalog[k].text,
                               DemoCatalog[k].views, DemoCatalog[k].reactions)]
        InRange(post) == df <= post.date /\ post.date < dt
    IN SelectSeq(demo_posts, InRange)

get_demo_posts(df, dt) ==
    LET days_range == IF dt - df < 0 THEN 0 ELSE dt - df
        demo_posts == [k \in 1..Len(DemoCatalog) |->
                          Post(df + Min(k - 1, days_range), DemoCatalog[k].text,
                               DemoCatalog[k].views, DemoCatalog[k].reactions)]
        InRange(post) == df <= post.date /\ post.date <= dt
    IN SelectSeq(demo_posts, InRange)

----------------------------------------------------------------------------
(* fetch_posts.fetch_posts *)

\* A message of the source: date (day number of message.date), text (message.text,
\* the empty string also standing for None), views (None or Some(n)), reactions
\* (None, or Some(results), each result [emoji |-> None or Some(emoticon),
\* count |-> n]).
Emoticon(reaction) == IF reaction.emoji # None THEN Get(reaction.emoji) ELSE "thumb"

TopReactions_unsorted(results) ==
    LET top == SubSeq(results, 1, Min(3, Len(results)))
    IN [i \in 1..Len(top) |-> Reaction(Emoticon(top[i]), top[i].count)]

\* Lines 203-218: the three reactions with the highest counts.
TopReactions(results) ==
    LET top == SubSeq(sorted(results, "count", TRUE), 1, Min(3, Len(results)))
    IN [i \in 1..Len(top) |-> Reaction(Emoticon(top[i]), top[i].count)]

\* Lines 199-225: the record appended for a message.
PostOf(message) ==
    Post(message.date, message.text, message.views,
         IF message.reactions # None
         THEN TopReactions(Get(message.reactions)) ELSE <<>>)

RECURSIVE CollectPosts_no_break(_, _, _)
CollectPosts_no_break(msgs, df, dt) ==
    IF msgs = <<>> THEN [posts |-> <<>>, consumed |-> 0]
    ELSE LET message == Head(msgs)
             rest == CollectPosts_no_break(Tail(msgs), df, dt)
         IN IF message.date < df \/ message.date > dt \/ Strip(message.text) = <<>>
            THEN [posts |-> rest.posts, consumed |-> 1 + rest.consumed]
            ELSE [posts |-> <<PostOf(message)>> \o rest.posts,
                  consumed |-> 1 + rest.consumed]

\* The loop over client.iter_messages (lines 188-228): posts is the list
\* collected from msgs, consumed the number of messages taken from the
\* iterator, the one that ends the loop included.
RECURSIVE CollectPosts(_, _, _)
CollectPosts(msgs, df, dt) ==
    IF msgs = <<>> THEN [posts |-> <<>>, consumed |-> 0]
    ELSE LET message == Head(msgs)
             rest == CollectPosts(Tail(msgs), df, dt)
         IN IF message.date < df THEN [posts |-> <<>>, consumed |-> 1]
            ELSE IF message.date > dt \/ Strip(message.text) = <<>>
            THEN [posts |-> rest.posts, consumed |-> 1 + rest.consumed]
            ELSE [posts |-> <<PostOf(message)>> \o rest.posts,
                  consumed |-> 1 + rest.consumed]

\* source: [entity |-> the exception client.get_entity raises ("" if none),
\*          iter |-> the exception raised while iterating ("" if none),
\*          messages |-> what client.iter_messages yields].
\* raised: the exception raised ("" if none); value: the returned list (None
\* if it raised); consumed: the number of messages taken from the source.
fetch_posts(ch, df, dt, source) ==
    IF source.entity # ""
    THEN [raised |-> "ValueError", value |-> None, consumed |-> 0]
    ELSE IF source.iter # ""
    THEN [raised |-> source.iter, value |-> None, consumed |-> 0]
    ELSE [raised |-> "", value |-> Some(CollectPosts(source.messages, df, dt).posts),
          consumed |-> CollectPosts(source.messages, df, dt).consumed]

----------------------------------------------------------------------------
(* telegram_client *)

validate_credentials(cfg) ==
    IF cfg.API_ID = None \/ cfg.API_HASH = None \/ cfg.API_ID = Some(0)
       \/ cfg.API_HASH = Some(<<>>)
    THEN "ValueError" ELSE ""

\* net: [up |-> the connection can be established,
\*       authorized |-> client.is_user_authorized()].
\* raised: the exception raised ("" if none); conn: the connection the call
\* leaves behind.
get_client(cfg, net) ==
    IF validate_credentials(cfg) # ""
    THEN [raised |-> "ValueError", conn |-> "none"]
    ELSE IF cfg.IS_PRODUCTION
    THEN IF cfg.TELEGRAM_SESSION_STRING \in {None, Some(<<>>)}
         THEN [raised |-> "RuntimeError", conn |-> "none"]
         ELSE IF ~net.up
         THEN [raised |-> "ConnectionError", conn |-> "none"]
         ELSE IF ~net.authorized
         THEN [raised |-> "RuntimeError", conn |-> "open"]
         ELSE [raised |-> "", conn |-> "open"]
    ELSE IF ~net.up
         THEN [raised |-> "ConnectionError", conn |-> "none"]
         ELSE [raised |-> "", conn |-> "open"]

----------------------------------------------------------------------------
(* str, date and path helpers *)

Digit(n) == <<"0", "1", "2", "3", "4", "5", "6", "7", "8", "9">>[n + 1]

\* str(n) of a non-negative int.
RECURSIVE IntStr(_)
IntStr(n) == IF n < 10 THEN <<Digit(n)>> ELSE IntStr(n \div 10) \o <<Digit(n % 10)>>

TwoDigits(n) == <<Digit(n \div 10), Digit(n % 10)>>

\* Day number d is the calendar date 2024-01-(d+1).
DayOfMonth(d) == d + 1

\* str(date): YYYY-MM-DD.
isoformat(d) == <<"2", "0", "2", "4", "-", "0", "1", "-">> \o TwoDigits(DayOfMonth(d))

\* date.strftime('%d.%m.%Y').
strftime_dmy(d) == TwoDigits(DayOfMonth(d)) \o <<".", "0", "1", ".", "2", "0", "2", "4">>

\* s.replace(c, r) for a one-character c.
RECURSIVE Replace(_, _, _)
Replace(s, c, r) ==
    IF s = <<>> THEN <<>>
    ELSE (IF Head(s) = c THEN r ELSE <<Head(s)>>) \o Replace(Tail(s), c, r)

StartsWith(s, prefix) ==
    Len(s) >= Len(prefix) /\ SubSeq(s, 1, Len(prefix)) = prefix

EndsWith(s, suffix) ==
    Len(s) >= Len(suffix) /\ SubSeq(s, Len(s) - Len(suffix) + 1, Len(s)) = suffix

Contains(s, sub) ==
    \E i \in 1..(Len(s) - Len(sub) + 1) : SubSeq(s, i, i + Len(sub) - 1) = sub

DotPdf == <<".", "p", "d", "f">>

\* The components of a path string: split at "/", empty and "." components
\* dropped (pathlib keeps "..").
RECURSIVE PathParts(_, _)
PathParts(s, part) ==
    LET done == IF part = <<>> \/ part = <<".">> THEN <<>> ELSE <<part>> IN
    IF s = <<>> THEN done
    ELSE IF Head(s) = "/" THEN done \o PathParts(Tail(s), <<>>)
    ELSE PathParts(Tail(s), Append(part, Head(s)))

\* pathlib.Path(s).
Path(s) == [abs |-> s # <<>> /\ Head(s) = "/", parts |-> PathParts(s, <<>>)]

\* Path / str: an absolute right-hand side replaces the left-hand side.
PathJoin(p, s) ==
    IF Path(s).abs THEN Path(s)
    ELSE [abs |-> p.abs, parts |-> p.parts \o Path(s).parts]

\* The working directory of the process.
Cwd == << <<"a", "p", "p">> >>

\* Path.resolve() with no symbolic link on the way: absolute, ".." applied.
RECURSIVE ApplyDotDot(_, _)
ApplyDotDot(parts, stack) ==
    IF parts = <<>> THEN stack
    ELSE IF Head(parts) = <<".", ".">>
    THEN ApplyDotDot(Tail(parts),
                     IF stack = <<>> THEN <<>> ELSE SubSeq(stack, 1, Len(stack) - 1))
    ELSE ApplyDotDot(Tail(parts), Append(stack, Head(parts)))

Resolve(p) == ApplyDotDot(IF p.abs THEN p.parts ELSE Cwd \o p.parts, <<>>)

\* p.resolve().relative_to(dir.resolve()) does not raise.
IsRelativeTo(p, dir) == StartsWith(Resolve(p), Resolve(dir))

----------------------------------------------------------------------------
(* pdf_builder.clean_markdown: thirteen re.sub calls, each replacing every *)
(* leftmost match, found from left to right, in the text the call before   *)
(* it returned.                                                            *)

\* lit is in s at position i.
At(s, i, lit) == i + Len(lit) - 1 <= Len(s) /\ SubSeq(s, i, i + Len(lit) - 1) = lit

\* The number of characters of s from position i on that are in class.
RECURSIVE Run(_, _, _)
Run(s, i, class) ==
    IF i <= Len(s) /\ s[i] \in class THEN 1 + Run(s, i + 1, class) ELSE 0

\* ^ and $ under re.MULTILINE.
LineStart(s, i) == i = 1 \/ s[i - 1] = "\n"
LineEnd(s, i) == i > Len(s) \/ s[i] = "\n"

\* Where close can start after a lazy group (.+? or [^x]+?) that starts at
\* from: the group is not empty and has no excluded character.
LazyEnds(s, from, close, excluded) ==
    {j \in (from + 1)..Len(s) :
        /\ At(s, j, close)
        /\ \A k \in from..(j - 1) : s[k] \notin excluded}

Least(S) == CHOOSE x \in S : \A y \in S : x <= y

Whitespace == {" ", "\n", "\t"}

\* The backquote character of lines 40-41, written as an apostrophe: a TLA+
\* string cannot hold a backquote.
Backquote == "'"

\* The patterns of lines 28-52.  excluded: what the group cannot hold ("." is
\* every character but the newline, every character under re.DOTALL).
Patterns ==
    << [kind |-> "span", open |-> <<"*", "*">>, close |-> <<"*", "*">>, excluded |-> {}],
       [kind |-> "span", open |-> <<"_", "_">>, close |-> <<"_", "_">>, excluded |-> {}],
       [kind |-> "span", open |-> <<"*">>, close |-> <<"*">>, excluded |-> {"*"}],
       [kind |-> "span", open |-> <<"_">>, close |-> <<"_">>, excluded |-> {"_"}],
       [kind |-> "span", open |-> <<"~", "~">>, close |-> <<"~", "~">>, excluded |-> {}],
       [kind |-> "span", open |-> <<Backquote, Backquote, Backquote>>,
        close |-> <<Backquote, Backquote, Backquote>>, excluded |-> {}],
       [kind |-> "span", open |-> <<Backquote>>, close |-> <<Backquote>>,
        excluded |-> {"\n"}],
       [kind |-> "link", open |-> <<"[">>, close |-> <<")">>, excluded |-> {"\n"}],
       [kind |-> "line_start", open |-> <<"*">>, close |-> <<>>, excluded |-> {}],
       [kind |-> "line_end", open |-> <<"*">>, close |-> <<>>, excluded |-> {}],
       [kind |-> "line_start", open |-> <<"_">>, close |-> <<>>, excluded |-> {}],
       [kind |-> "line_end", open |-> <<"_">>, close |-> <<>>, excluded |-> {}],
       [kind |-> "bullet", open |-> <<>>, close |-> <<>>, excluded |-> {}] >>

NoMatch == [len |-> 0, out |-> <<>>]

\* The match of pattern p that starts at position i of s: its length (0 if
\* there is none) and what replaces it.
Match(p, s, i) ==
    IF p.kind = "span"
    THEN LET from == i + Len(p.open)
             ends == LazyEnds(s, from, p.close, p.excluded)
         IN IF At(s, i, p.open) /\ ends # {}
            THEN [len |-> Least(ends) + Len(p.close) - i,
                  out |-> SubSeq(s, from, Least(ends) - 1)]
            ELSE NoMatch
    ELSE IF p.kind = "link"
    THEN LET mids == {j \in LazyEnds(s, i + 1, <<"]", "(">>, p.excluded) :
                         LazyEnds(s, j + 2, p.close, p.excluded) # {}}
         IN IF At(s, i, p.open) /\ mids # {}
            THEN [len |-> Least(LazyEnds(s, Least(mids) + 2, p.close, p.excluded)) + 1 - i,
                  out |-> SubSeq(s, i + 1, Least(mids) - 1)]
            ELSE NoMatch
    ELSE IF p.kind = "line_start"
    THEN LET marks == Run(s, i, {p.open[1]}) IN
         IF LineStart(s, i) /\ marks >= 1
         THEN [len |-> marks + Run(s, i + marks, Whitespace), out |-> <<>>]
         ELSE NoMatch
    ELSE IF p.kind = "line_end"
    THEN LET blanks == Run(s, i, Whitespace)
             marks == Run(s, i + blanks, {p.open[1]})
         IN IF marks >= 1 /\ LineEnd(s, i + blanks + marks)
            THEN [len |-> blanks + marks, out |-> <<>>]
            ELSE NoMatch
    ELSE LET blanks == Run(s, i, Whitespace)
             after == Run(s, i + blanks + 1, Whitespace)
         IN IF /\ LineStart(s, i)
               /\ i + blanks <= Len(s)
               /\ s[i + blanks] \in {"-", "*", "+"}
               /\ after >= 1
            THEN [len |-> blanks + 1 + after, out |-> <<>>]
            ELSE NoMatch

\* re.sub(pattern, replacement, s), from position i on.
RECURSIVE re_sub(_, _, _)
re_sub(p, s, i) ==
    IF i > Len(s) THEN <<>>
    ELSE IF Match(p, s, i).len > 0
    THEN Match(p, s, i).out \o re_sub(p, s, i + Match(p, s, i).len)
    ELSE <<s[i]>> \o re_sub(p, s, i + 1)

RECURSIVE clean_markdown_from(_, _)
clean_markdown_from(text, n) ==
    IF n > Len(Patterns) THEN text
    ELSE clean_markdown_from(re_sub(Patterns[n], text, 1), n + 1)

clean_markdown(text) == clean_markdown_from(text, 1)

----------------------------------------------------------------------------
(* pdf_builder.create_html *)

\* A text embedded in the markup: the raw text and the functions applied to
\* it, in the order they are applied.
Embedded(raw, steps) == [raw |-> raw, steps |-> steps]

\* emoji_handler.format_reactions_list: symbol and count pairs joined with
\* non-breaking spaces.
RECURSIVE format_reactions_list(_)
format_reactions_list(rs) ==
    IF rs = <<>> THEN <<>>
    ELSE <<Head(rs).emoji>> \o <<"nbsp">> \o IntStr(Head(rs).count)
         \o (IF Tail(rs) = <<>> THEN <<>> ELSE <<"nbsp", "nbsp">>)
         \o format_reactions_list(Tail(rs))

post_text_steps_escape_first == <<"escape", "clean_markdown", "normalize_emoji_text">>

\* Lines 173-177: what is applied to post['text'].
post_text_steps == <<"clean_markdown", "normalize_emoji_text", "escape">>

\* Lines 137 and 149: what is applied to channel_name.
channel_name_steps == <<"normalize_emoji_text", "escape">>

has_views_truthy(post) == post.views # None /\ post.views # Some(0)

\* Line 168.
has_views(post) == post.views # None

\* Lines 155-171: the parts of a post's header, joined with " / ".
header_parts(post) ==
    << [part |-> "post-date", value |-> <<"[">> \o strftime_dmy(post.date) \o <<"]">>] >>
    \o (IF post.reactions # <<>>
        THEN << [part |-> "post-reactions",
                 value |-> format_reactions_list(post.reactions)] >>
        ELSE <<>>)
    \o (IF has_views(post)
        THEN << [part |-> "post-views", value |-> IntStr(Get(post.views))] >>
        ELSE <<>>)

separator_after_every_post(i, n) == TRUE

\* Line 188: i is the 0-based index of the post, n the number of posts.
separator_after(i, n) == i < n - 1

\* Lines 153-189: the blocks and separators of posts[i..], i 1-based.
RECURSIVE html_items(_, _)
html_items(ps, i) ==
    IF i > Len(ps) THEN <<>>
    ELSE << [kind |-> "post", header |-> header_parts(ps[i]),
             text |-> Embedded(ps[i].text, post_text_steps)] >>
         \o (IF separator_after(i - 1, Len(ps))
             THEN << [kind |-> "separator", header |-> <<>>,
                      text |-> Embedded(<<>>, <<>>)] >>
             ELSE <<>>)
         \o html_items(ps, i + 1)

create_html(ps, channel_name) ==
    [title |-> Embedded(channel_name, channel_name_steps),
     items |-> html_items(ps, 1)]

----------------------------------------------------------------------------
(* core_service *)

\* getattr(config, 'DEMO_MODE', False): DEMO_MODE is None when the attribute
\* is absent.
is_demo_mode_flag_only(cfg) == cfg.DEMO_MODE = Some(TRUE)

\* Lines 39-55, on the attributes of the config module.
is_demo_mode(cfg) ==
    IF cfg.DEMO_MODE = Some(TRUE) THEN TRUE
    ELSE IF cfg.API_ID = None \/ cfg.API_ID = Some(0) THEN TRUE
    ELSE IF cfg.API_HASH = None \/ cfg.API_HASH = Some(<<>>) THEN TRUE
    ELSE FALSE

check_params_no_dates(ch, df, dt, st) ==
    IF ch = <<>> \/ Strip(ch) = <<>> THEN "ValueError"
    ELSE IF st \notin {"date", "reactions", "views"} THEN "ValueError"
    ELSE ""

\* The parameter checks that open generate_report: the exception they raise.
check_params(ch, df, dt, st) ==
    IF ch = <<>> \/ Strip(ch) = <<>> THEN "ValueError"
    ELSE IF dt < df THEN "ValueError"
    ELSE IF st \notin {"date", "reactions", "views"} THEN "ValueError"
    ELSE ""

\* The handlers that close generate_report's outer try: the exception that
\* leaves the call when exception e reaches them.
outer_except(e) ==
    IF e \in {"ChannelNotFoundError", "NoPostsFoundError",
              "TelegramConnectionError", "ReportGenerationError", "ValueError"}
    THEN e
    ELSE "ReportGenerationError"

output_dir == <<"g", "e", "n", "e", "r", "a", "t", "e", "d">>

\* Lines 103-110: the name of the document file.
pdf_filename(ch, df, dt, fn) ==
    LET clean_channel == Replace(Replace(Replace(ch, "@", <<>>), "/", <<"_">>),
                                 "\\", <<"_">>)
        name == IF fn = None \/ Get(fn) = <<>>
                THEN clean_channel \o <<"_">> \o isoformat(df) \o <<"_">>
                     \o isoformat(dt) \o DotPdf
                ELSE Get(fn)
    IN IF ~EndsWith(name, DotPdf) THEN name \o DotPdf ELSE name

\* Lines 100 and 113: output_path / filename.
pdf_path(ch, df, dt, fn) == PathJoin(Path(output_dir), pdf_filename(ch, df, dt, fn))

\* What the message source can be like when it is used.
Networks == [up : BOOLEAN, authorized : BOOLEAN]

SourceMessage(d, t, v, r) == [date |-> d, text |-> t, views |-> v, reactions |-> r]

PipelineMessages ==
    { <<>>,
      << SourceMessage(2, <<"a">>, Some(5), None) >>,
      << SourceMessage(1, <<" ">>, Some(5), None) >>,
      << SourceMessage(1, <<"a">>, None, Some(<<[emoji |-> Some("fire"), count |-> 2]>>)),
         SourceMessage(0, <<"b">>, Some(0), None) >>,
      << SourceMessage(1, <<"a">>, Some(0), None),
         SourceMessage(1, <<"b">>, None, Some(<<[emoji |-> None, count |-> 1]>>)),
         SourceMessage(-1, <<"c">>, Some(7), None) >> }

Sources ==
    [entity : {"UsernameInvalidError", "ChannelPrivateError", "ConnectionError"},
     iter : {""}, messages : {<<>>}]
    \cup [entity : {""}, iter : {"ConnectionError"}, messages : {<<>>}]
    \cup [entity : {""}, iter : {""}, messages : PipelineMessages]

\* Why fetch_posts failed: "channel" when the channel does not resolve or is
\* private, "entity_transport" / "iter_transport" when the message source could
\* not be reached while resolving the channel / iterating its messages.
SourceCause(source) ==
    IF source.entity \in {"UsernameInvalidError", "ChannelPrivateError"} THEN "channel"
    ELSE IF source.entity # "" THEN "entity_transport"
    ELSE IF source.iter # "" THEN "iter_transport"
    ELSE ""

Channels == { <<>>, <<" ">>, <<"@", "a">>, <<"a">> }

Configs ==
    [DEMO_MODE : {None, Some(TRUE), Some(FALSE)},
     API_ID : {None, Some(0), Some(12345)},
     API_HASH : {None, Some(<<>>), Some(<<"h">>)},
     IS_PRODUCTION : BOOLEAN,
     TELEGRAM_SESSION_STRING : {Some(<<>>), Some(<<"s">>)}]

Init ==
    /\ pc = "start"
    /\ channel \in Channels
    /\ date_from \in Days
    /\ date_to \in Days
    /\ sort_type \in SortTypes
    /\ ascending \in BOOLEAN
    /\ config \in Configs
    /\ posts = None
    /\ sorted_posts = None
    /\ client = None
    /\ conn = "none"
    /\ cause = ""
    /\ exc = ""
    /\ calls = <<>>
    /\ dirs = {}
    /\ files = {}
    /\ outcome = "running"
    /\ filename \in {None, Some(<<"r">>)}
    /\ html = None
    /\ FetchIdle
    /\ MarkdownIdle
    /\ FrontIdle
    /\ DownloadIdle

args == <<channel, date_from, date_to, sort_type, ascending, config, filename>>

\* Lines 89-97.
Validate ==
    /\ pc = "start"
    /\ IF check_params(channel, date_from, date_to, sort_type) # ""
       THEN /\ outcome' = check_params(channel, date_from, date_to, sort_type)
            /\ pc' = "done"
       ELSE /\ outcome' = outcome
            /\ pc' = "mkdir"
    /\ UNCHANGED <<others, html, args, posts, sorted_posts, client, conn, cause, exc, calls,
                   dirs, files>>

\* Lines 99-116: output_path.mkdir, the file name, is_demo_mode().  mkdir is
\* outside the try statement: what it raises leaves the call as it is.
MakeDir ==
    /\ pc = "mkdir"
    /\ calls' = Append(calls, "mkdir")
    /\ \E ok \in BOOLEAN :
          IF ok
          THEN /\ dirs' = dirs \cup {output_dir}
               /\ outcome' = outcome
               /\ pc' = IF is_demo_mode(config) THEN "demo" ELSE "get_client"
          ELSE /\ dirs' = dirs
               /\ outcome' = "OSError"
               /\ pc' = "done"
    /\ UNCHANGED <<others, html, args, posts, sorted_posts, client, conn, cause, exc, files>>

\* Line 121.
DemoPosts ==
    /\ pc = "demo"
    /\ calls' = Append(calls, "get_demo_posts")
    /\ posts' = Some(get_demo_posts(date_from, date_to))
    /\ pc' = "check"
    /\ UNCHANGED <<others, html, args, sorted_posts, client, conn, cause, exc, dirs, files,
                   outcome>>

\* Lines 124-127.  TelegramConnectionError passes the outer handlers as it is.
GetClient ==
    /\ pc = "get_client"
    /\ calls' = Append(calls, "get_client")
    /\ \E net \in Networks :
          LET r == get_client(config, net) IN
          /\ conn' = r.conn
          /\ IF r.raised # ""
             THEN /\ client' = client
                  /\ cause' = "client"
                  /\ outcome' = outer_except("TelegramConnectionError")
                  /\ pc' = "done"
             ELSE /\ client' = Some("client")
                  /\ cause' = cause
                  /\ outcome' = outcome
                  /\ pc' = "fetch"
    /\ UNCHANGED <<others, html, args, posts, sorted_posts, exc, dirs, files>>

\* Lines 129-131: the call of fetch_posts, up to the handler chosen.
FetchPosts ==
    /\ pc = "fetch"
    /\ calls' = Append(calls, "fetch_posts")
    /\ \E source \in Sources :
          LET r == fetch_posts(channel, date_from, date_to, source) IN
          /\ cause' = SourceCause(source)
          /\ exc' = r.raised
          /\ posts' = IF r.raised = "" THEN r.value ELSE posts
          /\ pc' = IF r.raised = "" THEN "finally"
                   ELSE IF r.raised = "ValueError" THEN "except_value"
                   ELSE "except_other"
    /\ UNCHANGED <<others, html, args, sorted_posts, client, conn, dirs, files, outcome>>

\* client.disconnect(): it closes the connection, or raises and leaves it.
Disconnect(ok) ==
    /\ calls' = Append(calls, "disconnect")
    /\ conn' = IF ok THEN "closed" ELSE conn

\* Lines 132-135: except ValueError.
ExceptValueError ==
    /\ pc = "except_value"
    /\ \E ok \in BOOLEAN :
          /\ Disconnect(ok)
          /\ exc' = IF ok THEN "ChannelNotFoundError" ELSE "OperationalError"
    /\ pc' = "finally"
    /\ UNCHANGED <<others, html, args, posts, sorted_posts, client, cause, dirs, files, outcome>>

ExceptException_NoDisconnect ==
    /\ pc = "except_other"
    /\ exc' = "ReportGenerationError"
    /\ pc' = "finally"
    /\ UNCHANGED <<others, html, args, posts, sorted_posts, client, conn, cause, calls,
                   dirs, files, outcome>>

\* Lines 136-138: except Exception.
ExceptException ==
    /\ pc = "except_other"
    /\ \E ok \in BOOLEAN :
          /\ Disconnect(ok)
          /\ exc' = IF ok THEN "ReportGenerationError" ELSE "OperationalError"
    /\ pc' = "finally"
    /\ UNCHANGED <<others, html, args, posts, sorted_posts, client, cause, dirs, files, outcome>>

Finally_NoDisconnect ==
    /\ pc = "finally"
    /\ IF exc = ""
       THEN /\ outcome' = outcome
            /\ pc' = "check"
       ELSE /\ outcome' = outer_except(exc)
            /\ pc' = "done"
    /\ UNCHANGED <<others, html, args, posts, sorted_posts, client, conn, cause, exc, calls,
                   dirs, files>>

\* Lines 139-144: the finally clause; what disconnect raises here is dropped.
\* An exception in flight then reaches the outer handlers (lines 163-168).
Finally ==
    /\ pc = "finally"
    /\ \E ok \in BOOLEAN : Disconnect(ok)
    /\ IF exc = ""
       THEN /\ outcome' = outcome
            /\ pc' = "check"
       ELSE /\ outcome' = outer_except(exc)
            /\ pc' = "done"
    /\ UNCHANGED <<others, html, args, posts, sorted_posts, client, cause, exc, dirs, files>>

CheckPosts_NoEmptyCheck ==
    /\ pc = "check"
    /\ pc' = "sort"
    /\ UNCHANGED <<others, html, args, posts, sorted_posts, client, conn, cause, exc, calls,
                   dirs, files, outcome>>

\* Lines 146-148.
CheckPosts ==
    /\ pc = "check"
    /\ IF Get(posts) = <<>>
       THEN /\ outcome' = outer_except("NoPostsFoundError")
            /\ pc' = "done"
       ELSE /\ outcome' = outcome
            /\ pc' = "sort"
    /\ UNCHANGED <<others, html, args, posts, sorted_posts, client, conn, cause, exc, calls,
                   dirs, files>>

\* Lines 150-154.
SortPosts ==
    /\ pc = "sort"
    /\ calls' = Append(calls, "sort_posts")
    /\ LET r == sort_posts(Get(posts), sort_type, ascending) IN
          /\ posts' = Some(r.posts)
          /\ IF r.raised # ""
             THEN /\ sorted_posts' = sorted_posts
                  /\ outcome' = outer_except("ReportGenerationError")
                  /\ pc' = "done"
             ELSE /\ sorted_posts' = r.value
                  /\ outcome' = outcome
                  /\ pc' = "pdf"
    /\ UNCHANGED <<others, html, args, client, conn, cause, exc, dirs, files>>

\* Lines 156-161: create_pdf builds the markup (pdf_builder.py:213), then
\* write_pdf writes the document at pdf_path or raises.
CreatePdf ==
    /\ pc = "pdf"
    /\ calls' = Append(calls, "create_pdf")
    /\ html' = Some(create_html(Get(sorted_posts), channel))
    /\ \E ok \in BOOLEAN :
          IF ok
          THEN /\ files' = files \cup
                      { [path |-> pdf_path(channel, date_from, date_to, filename),
                         html |-> create_html(Get(sorted_posts), channel)] }
               /\ outcome' = "returned"
          ELSE /\ files' = files
               /\ outcome' = outer_except("ReportGenerationError")
    /\ pc' = "done"
    /\ UNCHANGED <<others, args, posts, sorted_posts, client, conn, cause, exc, dirs>>

Next ==
    \/ Validate
    \/ MakeDir
    \/ DemoPosts
    \/ GetClient
    \/ FetchPosts
    \/ ExceptValueError
    \/ ExceptException
    \/ Finally
    \/ CheckPosts
    \/ SortPosts
    \/ CreatePdf

Spec == Init /\ [][Next]_vars

----------------------------------------------------------------------------
(* sort_posts called on its own: every list of up to MaxPosts posts, every *)
(* sort type (a wrong one included), both directions.  The post at         *)
(* position i of the argument has a body of i characters, so that two      *)
(* posts with equal keys are still told apart.                             *)

PostFields ==
    [date : Days,
     views : {None, Some(0), Some(1)},
     reactions : { <<>>, <<Reaction("fire", 3)>>,
                   <<Reaction("fire", 1), Reaction("heart", 1)>> }]

TextOf(i) == [k \in 1..i |-> "x"]

SortInit ==
    /\ pc = "sort_posts"
    /\ \E n \in 0..MaxPosts : \E f \in [1..n -> PostFields] :
          posts = Some([i \in 1..n |->
                           Post(f[i].date, TextOf(i), f[i].views, f[i].reactions)])
    /\ sort_type \in SortTypes
    /\ ascending \in BOOLEAN
    /\ channel = <<>>
    /\ date_from = 0
    /\ date_to = 0
    /\ config = None
    /\ sorted_posts = None
    /\ client = None
    /\ conn = "none"
    /\ cause = ""
    /\ exc = ""
    /\ calls = <<>>
    /\ dirs = {}
    /\ files = {}
    /\ outcome = "running"
    /\ filename = None
    /\ html = None
    /\ FetchIdle
    /\ MarkdownIdle
    /\ FrontIdle
    /\ DownloadIdle

CallSortPosts ==
    /\ pc = "sort_posts"
    /\ calls' = Append(calls, "sort_posts")
    /\ LET r == sort_posts(Get(posts), sort_type, ascending) IN
          /\ posts' = Some(r.posts)
          /\ sorted_posts' = r.value
          /\ outcome' = IF r.raised # "" THEN r.raised ELSE "returned"
    /\ pc' = "done"
    /\ UNCHANGED <<others, html, args, client, conn, cause, exc, dirs, files>>

SortNext == CallSortPosts

SortSpec == SortInit /\ [][SortNext]_vars

----------------------------------------------------------------------------
(* Claims about generate_report (specification Spec) *)

Has(name) == \E i \in 1..Len(calls) : calls[i] = name

InvalidRequest ==
    \/ Strip(channel) = <<>>
    \/ date_to < date_from
    \/ sort_type \notin SortKeys

FiveCategories ==
    {"ValueError", "ChannelNotFoundError", "NoPostsFoundError",
     "TelegramConnectionError", "ReportGenerationError"}

\* C1: a request with a blank channel, date_to < date_from or an unknown
\* sort_type ends in ValueError, and nothing was done before: no collaborator
\* was called, no directory made, no client acquired, no file written.
C1_InvalidRequestNoEffects ==
    InvalidRequest =>
        /\ pc \in {"start", "done"}
        /\ pc = "done" => outcome = "ValueError"
        /\ calls = <<>>
        /\ dirs = {}
        /\ files = {}
        /\ client = None
        /\ conn = "none"

C1_Witness ==
    /\ pc = "done"
    /\ outcome = "ValueError"
    /\ date_to < date_from
    /\ Strip(channel) # <<>>
    /\ sort_type \in SortKeys

\* C2: every failure of generate_report is one of the five named categories.
C2_EveryFailureClassified ==
    (pc = "done" /\ outcome # "returned") => outcome \in FiveCategories

\* C3: in live mode, once get_client has returned a client, disconnect has been
\* called before the sorter runs, before a document is written and before
\* generate_report ends.
C3_ReleasedBeforeSortWriteReturn ==
    client # None =>
        /\ \A i \in 1..Len(calls) :
              calls[i] \in {"sort_posts", "create_pdf"} =>
                  \E j \in 1..(i - 1) : calls[j] = "disconnect"
        /\ files # {} => Has("disconnect")
        /\ pc = "done" => Has("disconnect")

C3_Witness ==
    /\ client # None
    /\ pc = "done"
    /\ outcome = "returned"
    /\ files # {}

\* C4: no request ends with a connection that was opened and not released.
C4_NoConnectionLeftOpen ==
    pc = "done" => conn # "open"

\* C5: when the acquired message set is empty, generate_report ends in
\* NoPostsFoundError; the sorter and the assembler are not called and no file
\* is written.
C5_EmptyResult ==
    posts = Some(<<>>) =>
        /\ ~Has("sort_posts")
        /\ ~Has("create_pdf")
        /\ files = {}
        /\ pc = "done" => outcome = "NoPostsFoundError"

C5_Witness ==
    /\ posts = Some(<<>>)
    /\ pc = "done"
    /\ outcome = "NoPostsFoundError"

\* C6: in live mode, when fetch_posts raises ValueError out of the entity
\* lookup, generate_report ends in ChannelNotFoundError, whatever the
\* disconnect calls do.
C6_ChannelUnavailable ==
    (pc = "done" /\ cause \in {"channel", "entity_transport"})
        => outcome = "ChannelNotFoundError"

\* C7: in live mode, when the message source cannot be reached or
\* authenticated (obtaining the client, resolving the channel, iterating the
\* messages), generate_report ends in TelegramConnectionError.
C7_SourceUnavailable ==
    (pc = "done" /\ cause \in {"client", "entity_transport", "iter_transport"})
        => outcome = "TelegramConnectionError"

----------------------------------------------------------------------------
(* Claims about sort_posts (specification SortSpec) *)

\* The sort key as the specification words it.
ClaimKey(st, post) ==
    IF st = "date" THEN post.date
    ELSE IF st = "reactions"
    THEN IF post.reactions = <<>> THEN 0 ELSE SumCounts(post.reactions)
    ELSE IF post.views = None THEN 0 ELSE Get(post.views)

PositionIn(s, x) == CHOOSE k \in 1..Len(s) : s[k] = x

Sorted == pc = "done" /\ sort_type \in SortKeys /\ sorted_posts # None

\* C8: sort_posts is stable in both directions: two posts with equal keys
\* keep, in the result, the order they had in the argument.
C8_Stable ==
    Sorted =>
        LET inp == Get(posts)
            out == Get(sorted_posts)
        IN \A i, j \in 1..Len(inp) :
              (i < j /\ ClaimKey(sort_type, inp[i]) = ClaimKey(sort_type, inp[j]))
                  => /\ \E k \in 1..Len(out) : out[k] = inp[i]
                     /\ \E k \in 1..Len(out) : out[k] = inp[j]
                     /\ PositionIn(out, inp[i]) < PositionIn(out, inp[j])

C8_Witness ==
    /\ Sorted
    /\ ~ascending
    /\ Get(sorted_posts) # Get(posts)
    /\ \E i, j \in 1..Len(Get(posts)) :
          /\ i < j
          /\ ClaimKey(sort_type, Get(posts)[i]) = ClaimKey(sort_type, Get(posts)[j])

\* C9: the result of sort_posts is a permutation of the argument, with keys
\* non-decreasing when ascending and non-increasing when descending; the key
\* is the date, the sum of the reaction counts (0 without reactions), or the
\* views with None counted as 0.
C9_SortedPermutation ==
    (pc = "done" /\ sort_type \in SortKeys) =>
        /\ sorted_posts # None
        /\ LET inp == Get(posts)
               out == Get(sorted_posts)
           IN /\ Len(out) = Len(inp)
              /\ \A i \in 1..Len(inp) :
                    Cardinality({k \in 1..Len(out) : out[k] = inp[i]}) = 1
              /\ \A k \in 1..(Len(out) - 1) :
                    IF ascending
                    THEN ClaimKey(sort_type, out[k]) <= ClaimKey(sort_type, out[k + 1])
                    ELSE ClaimKey(sort_type, out[k]) >= ClaimKey(sort_type, out[k + 1])

C9_Witness ==
    /\ Sorted
    /\ sort_type = "views"
    /\ Get(sorted_posts) # Get(posts)
    /\ \E i, j \in 1..Len(Get(posts)) :
          /\ Get(posts)[i].views = None
          /\ Get(posts)[j].views = Some(0)

\* C10: sort_posts leaves its argument list as it was, and with a sort type
\* outside {date, reactions, views} it raises ValueError and returns nothing.
C10_InputKeptUnknownKeyRaises ==
    [][pc = "sort_posts" =>
          /\ posts' = posts
          /\ sort_type \notin SortKeys =>
                (outcome' = "ValueError" /\ sorted_posts' = None)]_vars

C10_Witness ==
    /\ pc = "done"
    /\ Has("sort_posts")
    /\ outcome = "returned"
    /\ Get(sorted_posts) # Get(posts)

----------------------------------------------------------------------------
(* get_demo_posts called on its own, on every window of days 0..DemoMaxDay *)
(* (inverted windows included).                                            *)

DemoMaxDay == 8

PipelineIdle ==
    /\ channel = <<>>
    /\ sort_type = "date"
    /\ ascending = TRUE
    /\ config = None
    /\ sorted_posts = None
    /\ client = None
    /\ conn = "none"
    /\ cause = ""
    /\ exc = ""
    /\ calls = <<>>
    /\ dirs = {}
    /\ files = {}
    /\ outcome = "running"
    /\ filename = None
    /\ html = None

DemoPostsInit ==
    /\ pc = "get_demo_posts"
    /\ date_from \in 0..DemoMaxDay
    /\ date_to \in 0..DemoMaxDay
    /\ posts = None
    /\ PipelineIdle
    /\ FetchIdle
    /\ MarkdownIdle
    /\ FrontIdle
    /\ DownloadIdle

CallGetDemoPosts ==
    /\ pc = "get_demo_posts"
    /\ calls' = Append(calls, "get_demo_posts")
    /\ posts' = Some(get_demo_posts(date_from, date_to))
    /\ outcome' = "returned"
    /\ pc' = "done"
    /\ UNCHANGED <<others, html, args, sorted_posts, client, conn, cause, exc,
                   dirs, files>>

DemoPostsNext == CallGetDemoPosts

DemoPostsSpec == DemoPostsInit /\ [][DemoPostsNext]_vars

----------------------------------------------------------------------------
(* generate_report in demo mode, on every window of days 0..DemoMaxDay,    *)
(* with and without a file name given by the caller.                       *)

DemoChannels == { <<"a">>, <<"@", "a">>, <<"t", "/", "a">> }

DemoConfigs ==
    {cfg \in Configs :
        /\ is_demo_mode(cfg)
        /\ cfg.IS_PRODUCTION = FALSE
        /\ cfg.TELEGRAM_SESSION_STRING = Some(<<>>)
        /\ cfg.API_HASH = Some(<<"h">>)
        /\ cfg.API_ID # None}

Filenames ==
    { None, Some(<<"r">>), Some(<<"r", ".", "p", "d", "f">>),
      Some(<<".", ".", "/", "r">>), Some(<<"/", "t", "/", "r">>) }

DemoInit ==
    /\ pc = "start"
    /\ channel \in DemoChannels
    /\ date_from \in 0..DemoMaxDay
    /\ date_to \in 0..DemoMaxDay
    /\ sort_type \in SortKeys
    /\ ascending \in BOOLEAN
    /\ config \in DemoConfigs
    /\ filename \in Filenames
    /\ posts = None
    /\ sorted_posts = None
    /\ client = None
    /\ conn = "none"
    /\ cause = ""
    /\ exc = ""
    /\ calls = <<>>
    /\ dirs = {}
    /\ files = {}
    /\ outcome = "running"
    /\ html = None
    /\ FetchIdle
    /\ MarkdownIdle
    /\ FrontIdle
    /\ DownloadIdle

DemoNext ==
    \/ Validate
    \/ MakeDir
    \/ DemoPosts
    \/ CheckPosts
    \/ SortPosts
    \/ CreatePdf

DemoSpec == DemoInit /\ [][DemoNext]_vars

\* C11: the k-th canned post (k = 0..6) is dated date_from + min(k, days in the
\* window); the posts returned are those whose date is in [date_from, date_to],
\* in catalog order; a window of one day returns all seven, dated date_from.
C11_DemoPostsDates ==
    pc = "done" =>
        LET r == Get(posts)
            window == IF date_to - date_from < 0 THEN 0 ELSE date_to - date_from
            DateOf(k) == date_from + (IF k < window THEN k ELSE window)
            Kept == {k \in 0..6 : date_from <= DateOf(k) /\ DateOf(k) <= date_to}
        IN /\ Len(r) = Cardinality(Kept)
           /\ \A i \in 1..Len(r) :
                 /\ date_from <= r[i].date /\ r[i].date <= date_to
                 /\ \E k \in Kept :
                       /\ r[i].text = DemoCatalog[k + 1].text
                       /\ r[i].date = DateOf(k)
                       /\ Cardinality({j \in Kept : j < k}) = i - 1
           /\ date_to = date_from =>
                 /\ Len(r) = 7
                 /\ \A i \in 1..7 : r[i].date = date_from

C11_Witness ==
    /\ pc = "done"
    /\ date_to = date_from + 6
    /\ Len(Get(posts)) = 7
    /\ Get(posts)[7].date = date_to
    /\ Get(posts)[1].date = date_from

\* The blocks of a document, in order.
Blocks(doc) == SelectSeq(doc.items, LAMBDA it : it.kind = "post")

\* C12: in demo mode, sorting by reactions in descending order over a window
\* of seven days, the seven canned posts reach the assembler, the post whose
\* reactions total 2225 first and the totals never increasing after it; the
\* document has seven blocks and its title line carries the channel label.
C12_DemoReactionsReport ==
    (/\ pc = "done"
     /\ outcome = "returned"
     /\ sort_type = "reactions"
     /\ ~ascending
     /\ date_to = date_from + 6) =>
        LET sp == Get(sorted_posts)
            doc == Get(html)
        IN /\ Len(sp) = 7
           /\ get_reactions_sum(sp[1]) = 2225
           /\ \A i \in 1..6 : get_reactions_sum(sp[i]) >= get_reactions_sum(sp[i + 1])
           /\ Len(Blocks(doc)) = 7
           /\ \A i \in 1..7 : Blocks(doc)[i].text.raw = sp[i].text
           /\ doc.title.raw = channel
           /\ \E f \in files : f.html = doc

C12_Witness ==
    /\ pc = "done"
    /\ outcome = "returned"
    /\ sort_type = "reactions"
    /\ ~ascending
    /\ date_to = date_from + 6
    /\ Len(Get(sorted_posts)) = 7
    /\ get_reactions_sum(Get(sorted_posts)[1]) = 2225
    /\ get_reactions_sum(Get(sorted_posts)[7]) = 0

\* C14: every document a successful generate_report call has written is
\* inside the output directory and has a name ending with ".pdf", whatever
\* the channel and whether the file name is derived or given by the caller.
C14_WrittenInsideOutputDir ==
    outcome = "returned" =>
        \A f \in files :
            /\ IsRelativeTo(f.path, Path(output_dir))
            /\ f.path.parts # <<>>
            /\ EndsWith(f.path.parts[Len(f.path.parts)], DotPdf)

----------------------------------------------------------------------------
(* create_html called on its own, on every list of up to MaxPosts posts    *)
(* and two channel labels.                                                 *)

HtmlPosts ==
    { Post(d, IF d = 0 THEN <<"a">> ELSE <<"*", "b", "*">>, v, r) :
        d \in {0, 14},
        v \in {None, Some(0), Some(7)},
        r \in { <<>>, <<Reaction("fire", 12), Reaction("heart", 3)>> } }

HtmlChannels == { <<"@", "a">>, <<"a", "_", "b", "_", "c">> }

HtmlInit ==
    /\ pc = "create_html"
    /\ \E n \in 0..MaxPosts : \E f \in [1..n -> HtmlPosts] : sorted_posts = Some(f)
    /\ channel \in HtmlChannels
    /\ posts = None
    /\ date_from = 0
    /\ date_to = 0
    /\ sort_type = "date"
    /\ ascending = TRUE
    /\ config = None
    /\ client = None
    /\ conn = "none"
    /\ cause = ""
    /\ exc = ""
    /\ calls = <<>>
    /\ dirs = {}
    /\ files = {}
    /\ outcome = "running"
    /\ filename = None
    /\ html = None
    /\ FetchIdle
    /\ MarkdownIdle
    /\ FrontIdle
    /\ DownloadIdle

CallCreateHtml ==
    /\ pc = "create_html"
    /\ html' = Some(create_html(Get(sorted_posts), channel))
    /\ calls' = Append(calls, "create_html")
    /\ pc' = "done"
    /\ UNCHANGED <<others, args, posts, sorted_posts, client, conn, cause, exc,
                   dirs, files, outcome>>

HtmlNext == CallCreateHtml

HtmlSpec == HtmlInit /\ [][HtmlNext]_vars

NormalizerSteps == <<"clean_markdown", "normalize_emoji_text", "escape">>

\* C15 as stated: every post text and the channel label are embedded after
\* markup stripping, symbol rewriting and escaping, in this order.
C15_ThreeStepsOnTextAndLabel ==
    html # None =>
        /\ Get(html).title.steps = NormalizerSteps
        /\ \A i \in 1..Len(Blocks(Get(html))) :
              Blocks(Get(html))[i].text.steps = NormalizerSteps

\* C15, amended: every post text is embedded after markup stripping, symbol
\* rewriting and escaping, in this order; the channel label is embedded
\* after symbol rewriting and escaping only, in this order, its markup
\* characters kept.
C15_StepsOnTextAndLabel ==
    html # None =>
        /\ Get(html).title.raw = channel
        /\ Get(html).title.steps = <<"normalize_emoji_text", "escape">>
        /\ Len(Blocks(Get(html))) = Len(Get(sorted_posts))
        /\ \A i \in 1..Len(Blocks(Get(html))) :
              /\ Blocks(Get(html))[i].text.raw = Get(sorted_posts)[i].text
              /\ Blocks(Get(html))[i].text.steps = NormalizerSteps

C15_Witness ==
    /\ html # None
    /\ channel = <<"a", "_", "b", "_", "c">>
    /\ Len(Blocks(Get(html))) = MaxPosts
    /\ Blocks(Get(html))[1].text.raw = <<"*", "b", "*">>

\* C17: the document has one block per post, in the order of the list, and
\* a separator after every block but the last: n blocks and max(0, n - 1)
\* separators.
C17_BlocksAndSeparators ==
    html # None =>
        LET ps == Get(sorted_posts)
            items == Get(html).items
            n == Len(ps)
        IN /\ Len(items) = IF n = 0 THEN 0 ELSE 2 * n - 1
           /\ \A j \in 1..Len(items) :
                 IF j % 2 = 1
                 THEN /\ items[j].kind = "post"
                      /\ items[j].text.raw = ps[(j + 1) \div 2].text
                      /\ items[j].header = header_parts(ps[(j + 1) \div 2])
                 ELSE items[j].kind = "separator"

C17_Witness ==
    /\ html # None
    /\ Len(Get(sorted_posts)) = MaxPosts
    /\ Len(Get(html).items) = 2 * MaxPosts - 1
    /\ Get(html).items[Len(Get(html).items)].kind = "post"
    /\ Get(sorted_posts)[1] # Get(sorted_posts)[2]

PartsNamed(block, name) == SelectSeq(block.header, LAMBDA h : h.part = name)

\* C18: the header of each block starts with the post's date written as
\* day.month.year; it has a reactions summary exactly when the post has
\* reactions and a views summary exactly when the view count is not absent
\* (a count of 0 gives a summary).
C18_HeaderParts ==
    html # None =>
        \A i \in 1..Len(Blocks(Get(html))) :
            LET b == Blocks(Get(html))[i]
                p == Get(sorted_posts)[i]
                d == b.header[1].value
            IN /\ b.header[1].part = "post-date"
               /\ d = <<"[">> \o TwoDigits(p.date + 1)
                      \o <<".", "0", "1", ".", "2", "0", "2", "4", "]">>
               /\ Len(PartsNamed(b, "post-reactions")) = IF p.reactions # <<>> THEN 1 ELSE 0
               /\ Len(PartsNamed(b, "post-views")) = IF p.views # None THEN 1 ELSE 0
               /\ p.views = Some(0) => PartsNamed(b, "post-views")[1].value = <<"0">>

C18_Witness ==
    /\ html # None
    /\ \E i \in 1..Len(Get(sorted_posts)) :
          /\ Get(sorted_posts)[i].views = Some(0)
          /\ Get(sorted_posts)[i].reactions = <<>>
          /\ Get(sorted_posts)[i].date = 14
          /\ Len(Blocks(Get(html))[i].header) = 2
    /\ \E i \in 1..Len(Get(sorted_posts)) :
          /\ Get(sorted_posts)[i].views = None
          /\ Get(sorted_posts)[i].reactions # <<>>
          /\ Len(Blocks(Get(html))[i].header) = 2

----------------------------------------------------------------------------
(* web_app.download_file: GET /files/{filename}.                           *)

GENERATED_DIR == Path(<<"g", "e", "n", "e", "r", "a", "t", "e", "d">>)

\* What the file system holds at GENERATED_DIR / filename: kind is what the
\* path leads to once links are followed ("none" if nothing), link is the
\* place a symbolic link at that path points to (None if it is no link).
FileSystems ==
    [kind : {"none", "file", "dir"},
     link : {None,
             Some(<< <<"a", "p", "p">>, <<"g", "e", "n", "e", "r", "a", "t", "e", "d">>,
                     <<"x">> >>),
             Some(<< <<"e", "t", "c">>, <<"p", "a", "s", "s", "w", "d">> >>)}]

\* file_path.resolve(): the link's target if the path is a link.
ResolvedFile(name, f) ==
    IF f.link # None THEN Get(f.link) ELSE Resolve(PathJoin(GENERATED_DIR, name))

Inside(name, f) == StartsWith(ResolvedFile(name, f), Resolve(GENERATED_DIR))

Response(status, media_type, path) ==
    [status |-> status, media_type |-> media_type, path |-> path]

download_file_no_resolve_check(name, f) ==
    IF Contains(name, <<"/">>) \/ Contains(name, <<"\\">>) \/ Contains(name, <<".", ".">>)
    THEN Response(403, "text/html", <<>>)
    ELSE IF f.kind = "none" \/ f.kind # "file"
    THEN Response(404, "text/html", <<>>)
    ELSE Response(200, "application/pdf", ResolvedFile(name, f))

\* Lines 363-392; path is the place of the file that is sent.
download_file(name, f) ==
    IF Contains(name, <<"/">>) \/ Contains(name, <<"\\">>) \/ Contains(name, <<".", ".">>)
    THEN Response(403, "text/html", <<>>)
    ELSE IF f.kind = "none" \/ f.kind # "file"
    THEN Response(404, "text/html", <<>>)
    ELSE IF ~Inside(name, f)
    THEN Response(403, "text/html", <<>>)
    ELSE Response(200, "application/pdf", ResolvedFile(name, f))

RequestNames ==
    { <<"r", ".", "p", "d", "f">>, <<"r">>,
      <<".", ".", "/", ".", ".", "/", "e", "t", "c", "/", "p", "a", "s", "s", "w", "d">>,
      <<".", ".">>, <<"a", "/", "r">>, <<"a", "\\", "r">>, <<"a", ".", ".", "r">>,
      <<".", "r">> }

DownloadInit ==
    /\ pc = "download_file"
    /\ http_name \in RequestNames
    /\ fs \in {Some(f) : f \in FileSystems}
    /\ response = None
    /\ posts = None
    /\ date_from = 0
    /\ date_to = 0
    /\ PipelineIdle
    /\ FetchIdle
    /\ MarkdownIdle
    /\ FrontIdle

CallDownloadFile ==
    /\ pc = "download_file"
    /\ response' = Some(download_file(http_name, Get(fs)))
    /\ pc' = "done"
    /\ UNCHANGED <<args, front, posts, sorted_posts, client, conn, cause, exc, calls,
                   dirs, files, outcome, html, feed, consumed, md_text, md_once,
                   md_twice, http_name, fs>>

DownloadNext == CallDownloadFile

DownloadSpec == DownloadInit /\ [][DownloadNext]_vars

HasSeparator(name) ==
    \E i \in 1..Len(name) :
        \/ name[i] \in {"/", "\\"}
        \/ i < Len(name) /\ name[i] = "." /\ name[i + 1] = "."

\* C13 as stated: a name with "/", "\" or ".." gets 403; a name whose
\* resolved path is outside the resolved output directory gets 403; a name
\* that is not an existing regular file gets 404; only otherwise is the file
\* sent, as application/pdf.
C13_OutsideIsForbidden ==
    response # None =>
        LET r == Get(response) IN
        /\ HasSeparator(http_name) => r.status = 403
        /\ ~Inside(http_name, Get(fs)) => r.status = 403
        /\ (~HasSeparator(http_name) /\ Inside(http_name, Get(fs))
              /\ Get(fs).kind # "file") => r.status = 404
        /\ r.status = 200 =>
              /\ ~HasSeparator(http_name)
              /\ Inside(http_name, Get(fs))
              /\ Get(fs).kind = "file"
              /\ r.media_type = "application/pdf"

\* C13, amended: no file outside the output directory is ever sent.  A name
\* with "/", "\" or ".." gets 403; any other name that is not an existing
\* regular file gets 404, wherever it resolves; an existing regular file
\* that resolves outside the resolved output directory gets 403; only
\* otherwise is the file sent, as application/pdf.
C13_NeverServesOutside ==
    response # None =>
        LET r == Get(response)
            f == Get(fs)
        IN /\ r.status \in {200, 403, 404}
           /\ HasSeparator(http_name) => r.status = 403
           /\ (~HasSeparator(http_name) /\ f.kind # "file") => r.status = 404
           /\ (~HasSeparator(http_name) /\ f.kind = "file" /\ ~Inside(http_name, f))
                 => r.status = 403
           /\ (~HasSeparator(http_name) /\ f.kind = "file" /\ Inside(http_name, f))
                 => /\ r.status = 200
                    /\ r.media_type = "application/pdf"
           /\ r.status = 200 => StartsWith(r.path, Resolve(GENERATED_DIR))

C13_Witness ==
    /\ response # None
    /\ ~HasSeparator(http_name)
    /\ Get(fs).kind = "dir"
    /\ ~Inside(http_name, Get(fs))
    /\ Get(response).status = 404

----------------------------------------------------------------------------
(* fetch_posts and get_demo_posts called on their own.  The source yields  *)
(* up to MaxPosts messages dated around the window, some of them blank,    *)
(* in any order; or one message with every list of up to four reactions.   *)

FetchMessages ==
    UNION { { [i \in 1..n |-> SourceMessage(f[i].date,
                                  IF f[i].text = "body" THEN TextOf(i)
                                  ELSE IF f[i].text = "blank" THEN <<" ">> ELSE <<>>,
                                  Some(i), None)] :
                f \in [1..n -> [date : -1..2, text : {"body", "blank", "none"}]] } :
            n \in 0..MaxPosts }

ReactionResults ==
    UNION { { [i \in 1..n |-> [emoji |-> IF i = 2 THEN None ELSE Some(<<"e", "f", "g", "h">>[i]),
                               count |-> c[i]]] :
                c \in [1..n -> 1..3] } :
            n \in 0..4 }

ReactionMessages ==
    { << SourceMessage(1, <<"a">>, None, Some(rs)) >> : rs \in ReactionResults }

Windows == { w \in (0..1) \X (0..1) : w[1] <= w[2] }

FetchInit ==
    /\ \/ /\ pc = "fetch_posts"
          /\ \E ms \in FetchMessages \cup ReactionMessages :
                feed = Some([entity |-> "", iter |-> "", messages |-> ms])
       \/ /\ pc = "get_demo_posts"
          /\ feed = None
    /\ \E w \in Windows : date_from = w[1] /\ date_to = w[2]
    /\ consumed = 0
    /\ posts = None
    /\ PipelineIdle
    /\ MarkdownIdle
    /\ FrontIdle
    /\ DownloadIdle

CallFetchPosts ==
    /\ pc = "fetch_posts"
    /\ LET r == fetch_posts(channel, date_from, date_to, Get(feed)) IN
          /\ posts' = r.value
          /\ consumed' = r.consumed
    /\ pc' = "done"
    /\ UNCHANGED <<args, front, sorted_posts, client, conn, cause, exc, calls, dirs, files,
                   outcome, html, feed, md_text, md_once, md_twice, http_name, fs,
                   response>>

FetchNext ==
    \/ CallFetchPosts
    \/ CallGetDemoPosts

FetchSpec == FetchInit /\ [][FetchNext]_vars

NonIncreasing(ms) == \A i \in 1..Len(ms) : \A j \in i..Len(ms) : ms[i].date >= ms[j].date

Indices(ms) == [i \in 1..Len(ms) |-> i]

\* C19: on a source that yields its messages in non-increasing date order,
\* fetch_posts returns, in source order, exactly the messages dated inside
\* the window whose text is not blank, and takes no message from the source
\* after the first one dated before the window.
C19_WindowAndEarlyStop ==
    (pc = "done" /\ feed # None /\ NonIncreasing(Get(feed).messages)) =>
        LET ms == Get(feed).messages
            r == Get(posts)
            Blank(t) == \A k \in 1..Len(t) : t[k] = " "
            Wanted(i) == /\ date_from <= ms[i].date
                         /\ ms[i].date <= date_to
                         /\ ~Blank(ms[i].text)
            kept == SelectSeq(Indices(ms), Wanted)
            Older == {i \in 1..Len(ms) : ms[i].date < date_from}
        IN /\ Len(r) = Len(kept)
           /\ \A k \in 1..Len(r) :
                 /\ r[k].date = ms[kept[k]].date
                 /\ r[k].text = ms[kept[k]].text
                 /\ r[k].views = ms[kept[k]].views
           /\ consumed = IF Older = {} THEN Len(ms)
                         ELSE CHOOSE i \in Older : \A j \in Older : i <= j

C19_Witness ==
    /\ pc = "done"
    /\ feed # None
    /\ NonIncreasing(Get(feed).messages)
    /\ Len(Get(posts)) >= 1
    /\ consumed < Len(Get(feed).messages)

\* The place of results[m] when the results are ordered by count, highest
\* first, equal counts in their order in the source.
Rank(results, m) ==
    1 + Cardinality({k \in 1..Len(results) :
                        \/ results[k].count > results[m].count
                        \/ results[k].count = results[m].count /\ k < m})

\* C20: every record of fetch_posts and of get_demo_posts has at most three
\* reactions; those of a fetched record are the three of the message with
\* the highest counts, in non-increasing order of count, equal counts in
\* their order in the source.
C20_TopThreeReactions ==
    pc = "done" =>
        /\ \A i \in 1..Len(Get(posts)) :
              LET rs == Get(posts)[i].reactions IN
              /\ Len(rs) <= 3
              /\ \A k \in 1..(Len(rs) - 1) : rs[k].count >= rs[k + 1].count
        /\ (feed # None /\ Len(Get(posts)) = 1 /\ Len(Get(feed).messages) = 1
              /\ Get(feed).messages[1].reactions # None) =>
              LET results == Get(Get(feed).messages[1].reactions)
                  rs == Get(posts)[1].reactions
              IN /\ Len(rs) = IF Len(results) < 3 THEN Len(results) ELSE 3
                 /\ \A m \in 1..Len(results) :
                       Rank(results, m) <= 3 =>
                           /\ rs[Rank(results, m)].count = results[m].count
                           /\ rs[Rank(results, m)].emoji =
                                 IF results[m].emoji = None THEN "thumb"
                                 ELSE Get(results[m].emoji)

C20_Witness ==
    /\ pc = "done"
    /\ feed # None
    /\ Len(Get(posts)) = 1
    /\ Get(feed).messages[1].reactions # None
    /\ LET results == Get(Get(feed).messages[1].reactions) IN
          /\ Len(results) = 4
          /\ results[1].count = 1
          /\ results[2].count = 2
          /\ results[3].count = 2
          /\ results[4].count = 3
    /\ Get(posts)[1].reactions =
          <<Reaction("h", 3), Reaction("thumb", 2), Reaction("g", 2)>>

----------------------------------------------------------------------------
(* clean_markdown applied twice, on every text made of up to three pieces: *)
(* a letter, a blank, a line break, one markup construct around a letter,  *)
(* a lone emphasis marker, a list bullet.  No construct holds another.     *)

Pieces ==
    { <<"a">>, <<" ">>, <<"\n">>,
      <<"*", "*", "b", "*", "*">>, <<"_", "_", "b", "_", "_">>,
      <<"*", "b", "*">>, <<"_", "b", "_">>,
      <<"~", "~", "b", "~", "~">>,
      <<Backquote, Backquote, Backquote, "b", Backquote, Backquote, Backquote>>,
      <<Backquote, "b", Backquote>>,
      <<"[", "b", "]", "(", "u", ")">>,
      <<"*">>, <<"_">>, <<"-", " ">> }

RECURSIVE Concat(_)
Concat(ss) == IF ss = <<>> THEN <<>> ELSE Head(ss) \o Concat(Tail(ss))

Texts == UNION { { Concat(ss) : ss \in [1..n -> Pieces] } : n \in 0..3 }

MarkdownInit ==
    /\ pc = "clean_markdown"
    /\ md_text \in Texts
    /\ md_once = None
    /\ md_twice = None
    /\ posts = None
    /\ date_from = 0
    /\ date_to = 0
    /\ PipelineIdle
    /\ FetchIdle
    /\ DownloadIdle
    /\ FrontIdle

CleanOnce ==
    /\ pc = "clean_markdown"
    /\ md_once' = Some(clean_markdown(md_text))
    /\ pc' = "clean_markdown_again"
    /\ UNCHANGED <<args, front, posts, sorted_posts, client, conn, cause, exc, calls, dirs,
                   files, outcome, html, feed, consumed, md_text, md_twice,
                   http_name, fs, response>>

CleanTwice ==
    /\ pc = "clean_markdown_again"
    /\ md_twice' = Some(clean_markdown(Get(md_once)))
    /\ pc' = "done"
    /\ UNCHANGED <<args, front, posts, sorted_posts, client, conn, cause, exc, calls, dirs,
                   files, outcome, html, feed, consumed, md_text, md_once,
                   http_name, fs, response>>

MarkdownNext ==
    \/ CleanOnce
    \/ CleanTwice

MarkdownSpec == MarkdownInit /\ [][MarkdownNext]_vars

\* C16: on a text with no markup inside markup, a second pass of
\* clean_markdown strips nothing more: clean_markdown(clean_markdown(t)) =
\* clean_markdown(t).
C16_SecondPassStripsNothing ==
    md_twice # None => Get(md_twice) = Get(md_once)

----------------------------------------------------------------------------
(* Claims on generate_report: the data source and the disconnect calls.    *)

Count(name) == Cardinality({i \in 1..Len(calls) : calls[i] = name})

FetchRaised == cause \in {"channel", "entity_transport", "iter_transport"}

\* C25: once the handlers and the finally clause that follow the call of
\* fetch_posts have run, client.disconnect has been attempted exactly twice
\* if fetch_posts raised (once in the handler, once in the finally clause)
\* and exactly once if it returned; every attempt comes after the call.
C25_DisconnectAttempts ==
    (Has("fetch_posts") /\ pc \notin {"except_value", "except_other", "finally"}) =>
        /\ Count("disconnect") = IF FetchRaised THEN 2 ELSE 1
        /\ \A i \in 1..Len(calls) :
              calls[i] = "disconnect" => \E j \in 1..(i - 1) : calls[j] = "fetch_posts"
        /\ \A i \in 1..Len(calls) :
              calls[i] \in {"sort_posts", "create_pdf"} => Count("disconnect") = 1

C25_Witness ==
    /\ pc = "done"
    /\ FetchRaised
    /\ cause = "iter_transport"
    /\ Count("disconnect") = 2
    /\ outcome = "ReportGenerationError"

DemoFlags ==
    \/ config.DEMO_MODE = Some(TRUE)
    \/ config.API_ID \in {None, Some(0)}
    \/ config.API_HASH \in {None, Some(<<>>)}

\* C26: the data source is chosen from the configuration alone, once per
\* call: demo exactly when DEMO_MODE is set, or API_ID is absent or 0, or
\* API_HASH is absent or empty.  In demo mode no client is acquired and
\* get_client, fetch_posts and disconnect are never called; in live mode
\* get_demo_posts is never called.
C26_ModeFromConfiguration ==
    /\ DemoFlags =>
          /\ client = None
          /\ conn = "none"
          /\ ~Has("get_client")
          /\ ~Has("fetch_posts")
          /\ ~Has("disconnect")
          /\ pc \notin {"get_client", "fetch", "except_value", "except_other", "finally"}
    /\ ~DemoFlags =>
          /\ ~Has("get_demo_posts")
          /\ pc # "demo"
    /\ Count("get_demo_posts") + Count("get_client") <= 1
    /\ (pc = "done" /\ outcome = "returned") =>
          Count("get_demo_posts") + Count("get_client") = 1

C26_Witness ==
    /\ pc = "done"
    /\ outcome = "returned"
    /\ config.DEMO_MODE = Some(FALSE)
    /\ config.API_ID = Some(0)
    /\ config.API_HASH = Some(<<"h">>)
    /\ Has("get_demo_posts")

\* C28: for every window with date_to >= date_from get_demo_posts returns
\* the seven canned posts, so that in demo mode a request that has passed
\* validation never ends in NoPostsFoundError, and once the posts are there
\* it goes on to sort_posts and create_pdf.
C28_DemoNeverEmpty ==
    /\ outcome # "NoPostsFoundError"
    /\ Has("get_demo_posts") =>
          /\ date_from <= date_to
          /\ Len(Get(posts)) = 7
          /\ \A k \in 1..7 : \E i \in 1..7 : Get(posts)[i].text = DemoCatalog[k].text
          /\ pc = "done" => Has("sort_posts") /\ Has("create_pdf")

C28_Witness ==
    /\ pc = "done"
    /\ date_from = date_to
    /\ Has("get_demo_posts")
    /\ Len(Get(sorted_posts)) = 7
    /\ outcome = "returned"

----------------------------------------------------------------------------
(* main.py: the command line.  get_user_input asks for the parameters,    *)
(* generate_report is called once, and the handlers of main turn what the *)
(* call ended with into the status the process exits with.                *)

\* Every class an exception of the named class is an instance of
\* (core_service.py 19-36 and the built-in hierarchy).
Mro(cls) ==
    IF cls \in {"ChannelNotFoundError", "NoPostsFoundError", "TelegramConnectionError"}
    THEN {cls, "ReportGenerationError", "Exception", "BaseException"}
    ELSE IF cls \in {"ReportGenerationError", "ValueError", "OSError"}
    THEN {cls, "Exception", "BaseException"}
    ELSE IF cls = "Exception" THEN {cls, "BaseException"}
    ELSE {cls, "BaseException"}

\* The except clauses of main in the order Python tries them, with a
\* handler for the base class first: then the base handler takes every
\* pipeline error, NoPostsFoundError included.
main_handlers_base_first ==
    << [cls |-> "ReportGenerationError", code |-> 1],
       [cls |-> "ChannelNotFoundError", code |-> 1],
       [cls |-> "NoPostsFoundError", code |-> 0],
       [cls |-> "TelegramConnectionError", code |-> 1],
       [cls |-> "ValueError", code |-> 1],
       [cls |-> "KeyboardInterrupt", code |-> 0],
       [cls |-> "Exception", code |-> 1] >>

\* Lines 180-227: the except clauses of main, in order, each with the
\* status of its sys.exit.
main_handlers ==
    << [cls |-> "ChannelNotFoundError", code |-> 1],
       [cls |-> "NoPostsFoundError", code |-> 0],
       [cls |-> "TelegramConnectionError", code |-> 1],
       [cls |-> "ReportGenerationError", code |-> 1],
       [cls |-> "ValueError", code |-> 1],
       [cls |-> "KeyboardInterrupt", code |-> 0],
       [cls |-> "Exception", code |-> 1] >>

\* The status of the process when the body of main's try ended with `ended`:
\* 0 when main returns; the first clause that matches the exception decides;
\* SystemExit(1) of get_user_input matches no clause and keeps its status.
main_exit(ended) ==
    LET matching == {i \in 1..Len(main_handlers) : main_handlers[i].cls \in Mro(ended)}
    IN IF ended = "returned" THEN 0
       ELSE IF matching # {}
            THEN main_handlers[CHOOSE i \in matching : \A j \in matching : i <= j].code
       ELSE 1

\* What a call of generate_report can end with (the outcomes Spec reaches).
GenerateOutcomes == {"returned", "OSError"} \cup FiveCategories

CliConfigs ==
    {cfg \in Configs : cfg.IS_PRODUCTION = FALSE /\ cfg.TELEGRAM_SESSION_STRING = Some(<<>>)}

demo_channel == <<"d", "e", "m", "o", "_", "c", "h", "a", "n", "n", "e", "l">>

\* main.py 104-110: the file name get_user_input returns for what was typed.
cli_filename(ch, df, dt, typed) ==
    LET default_filename == Replace(Replace(ch, "@", <<>>), "/", <<"_">>) \o <<"_">>
                            \o isoformat(df) \o <<"_">> \o isoformat(dt) \o DotPdf
        name == IF typed = None \/ Strip(Get(typed)) = <<>>
                THEN default_filename ELSE Strip(Get(typed))
    IN IF ~EndsWith(name, DotPdf) THEN name \o DotPdf ELSE name

\* What the user types: get_user_input asks again until the dates parse,
\* date_to >= date_from and the choices are on the menu, so only the channel
\* and the file name are free.
CliInit ==
    /\ pc = "get_user_input"
    /\ channel \in Channels
    /\ date_from \in Days
    /\ date_to \in Days
    /\ date_to >= date_from
    /\ sort_type \in SortKeys
    /\ ascending \in BOOLEAN
    /\ config \in CliConfigs
    /\ filename \in {None, Some(<<"r">>)}
    /\ posts = None
    /\ sorted_posts = None
    /\ client = None
    /\ conn = "none"
    /\ cause = ""
    /\ exc = ""
    /\ calls = <<>>
    /\ dirs = {}
    /\ files = {}
    /\ outcome = "running"
    /\ html = None
    /\ exit_code = None
    /\ FetchIdle
    /\ MarkdownIdle
    /\ DownloadIdle
    /\ LogIdle
    /\ WebIdle

\* main.py 19-124.  In demo mode the channel is not asked for; otherwise a
\* blank channel ends the process with sys.exit(1).  An empty file name
\* becomes the derived one, and ".pdf" is appended where it is missing.
GetUserInput ==
    /\ pc = "get_user_input"
    /\ LET ch == IF is_demo_mode(config) THEN demo_channel ELSE Strip(channel) IN
       IF ch = <<>>
       THEN /\ outcome' = "SystemExit"
            /\ pc' = "except"
            /\ UNCHANGED <<channel, filename>>
       ELSE /\ channel' = ch
            /\ filename' = Some(cli_filename(ch, date_from, date_to, filename))
            /\ pc' = "generate_report"
            /\ UNCHANGED outcome
    /\ UNCHANGED <<date_from, date_to, sort_type, ascending, config, posts,
                   sorted_posts, client, conn, cause, exc, calls, dirs, files,
                   html, exit_code, feed, consumed, md_text, md_once, md_twice,
                   http_name, fs, response, env, log, data, reqs, events>>

\* main.py 160-168: the one call of generate_report, and what it ends with.
CallGenerateReport ==
    /\ pc = "generate_report"
    /\ \E o \in GenerateOutcomes : outcome' = o
    /\ calls' = Append(calls, "generate_report")
    /\ pc' = "except"
    /\ UNCHANGED <<channel, date_from, date_to, sort_type, ascending, config,
                   filename, posts, sorted_posts, client, conn, cause, exc, dirs,
                   files, html, exit_code, feed, consumed, md_text, md_once,
                   md_twice, http_name, fs, response, env, log, data, reqs, events>>

\* main.py 180-227 and 230-232: the process exits.
Exit ==
    /\ pc = "except"
    /\ exit_code' = Some(main_exit(outcome))
    /\ pc' = "exited"
    /\ UNCHANGED <<args, posts, sorted_posts, client, conn, cause, exc, calls,
                   dirs, files, outcome, html, feed, consumed, md_text, md_once,
                   md_twice, http_name, fs, response, env, log, data, reqs, events>>

CliNext == GetUserInput \/ CallGenerateReport \/ Exit

CliSpec == CliInit /\ [][CliNext]_vars

\* C21: the process exits with 0 when the report was generated or the window
\* held no posts (NoPostsFoundError), and with 1 for every other way the run
\* can end: a blank channel, ValueError, ChannelNotFoundError,
\* TelegramConnectionError, ReportGenerationError, an unexpected exception.
\* The status is set once, when the process exits.
C21_ExitCodes ==
    /\ pc # "exited" => exit_code = None
    /\ pc = "exited" =>
          /\ outcome \in GenerateOutcomes \cup {"SystemExit"}
          /\ exit_code = Some(IF outcome \in {"returned", "NoPostsFoundError"}
                              THEN 0 ELSE 1)
          /\ outcome = "SystemExit" <=> ~Has("generate_report")

C21_Witness ==
    /\ pc = "exited"
    /\ outcome = "NoPostsFoundError"
    /\ exit_code = Some(0)
    /\ Has("generate_report")

----------------------------------------------------------------------------
(* log_parser.py: server.log is read line by line into an AnalyticsData.  *)
(* A line is what json.loads makes of it: nothing ("blank", "text": not   *)
(* JSON), or a value of one JSON kind.  `mentions` is what the test       *)
(* "event_type" in event gives on a str (substring), a list (member) or   *)
(* an object (key).  One day and one channel stand for all.               *)

EventTypes == {"page_view", "export_started", "export_success", "export_failed"}

Langs == {"ru", "unknown"}
ErrorTypes == {"E", "UnknownError"}
DayKeys == {"started", "success", "failed"}

\* An event object: event_type ("" for a missing, null or empty value), and
\* the optional keys lang, timestamp and extra (with its optional keys).
Event(t, lang, timestamp, extra) ==
    [event_type |-> t, lang |-> lang, timestamp |-> timestamp, extra |-> extra]

\* The event as analytics.log_event writes it (analytics.py 166-179).
FullEvent(t) ==
    Event(t, Some("ru"), Some(<<"d", "T", "t">>),
          Some([error_type |-> Some("E"), channel_input |-> Some("c")]))

\* An object with the key event_type and nothing else.
BareEvent(t) == Event(t, None, None, None)

Line(json, mentions, event) == [json |-> json, mentions |-> mentions, event |-> event]

\* The lines the application writes itself, and what else ends up in a
\* shared server.log: blank lines and text that is not JSON.
WrittenLines ==
    {Line("object", TRUE, FullEvent(t)) : t \in EventTypes}
    \cup {Line("blank", FALSE, BareEvent("")), Line("text", FALSE, BareEvent(""))}

\* Every shape of line: also JSON numbers, null, strings, lists, objects
\* without event_type, and objects with event_type and no other key.
LogLines ==
    WrittenLines
    \cup {Line(k, FALSE, BareEvent("")) : k \in {"number", "null"}}
    \cup {Line(k, m, BareEvent("")) : k \in {"string", "list"}, m \in BOOLEAN}
    \cup {Line("object", FALSE, BareEvent(""))}
    \cup {Line("object", TRUE, BareEvent(t)) : t \in EventTypes \cup {""}}

\* Lines 20-40: a new AnalyticsData (a counter that has no entry reads 0).
AnalyticsData ==
    [events_count |-> [t \in EventTypes |-> 0],
     lang_distribution |-> [l \in Langs |-> 0],
     errors_by_type |-> [e \in ErrorTypes |-> 0],
     daily_stats |-> [k \in DayKeys |-> 0],
     top_channels |-> 0,
     total_lines |-> 0,
     valid_events |-> 0]

\* Lines 42-88.
add_event(d, event) ==
    LET event_type == event.event_type
        lang == IF event.lang = None THEN "unknown" ELSE Get(event.lang)
        key == CASE event_type = "export_started" -> "started"
                 [] event_type = "export_success" -> "success"
                 [] event_type = "export_failed" -> "failed"
                 [] OTHER -> ""
        error_type == IF event.extra = None \/ Get(event.extra).error_type = None
                      THEN "UnknownError" ELSE Get(Get(event.extra).error_type)
        has_channel == event.extra # None /\ Get(event.extra).channel_input # None
    IN IF event_type = "" THEN d
       ELSE [d EXCEPT
               !.events_count[event_type] = @ + 1,
               !.valid_events = @ + 1,
               !.lang_distribution[lang] = @ + 1,
               !.daily_stats = IF event.timestamp # None /\ key # ""
                               THEN [@ EXCEPT ![key] = @ + 1] ELSE @,
               !.errors_by_type = IF event_type = "export_failed"
                                  THEN [@ EXCEPT ![error_type] = @ + 1] ELSE @,
               !.top_channels = IF event_type = "export_started" /\ has_channel
                                THEN @ + 1 ELSE @]

\* Lines 90-102: None, or the rate (success / started) * 100 as the exact
\* fraction num / den.
get_conversion_rate(d) ==
    LET started == d.events_count["export_started"]
        success == d.events_count["export_success"]
    IN IF started > 0
       THEN Some([num |-> success * 100, den |-> started])
       ELSE None

\* Lines 141-156, the body of the loop for one line: the exception that
\* leaves parse_log_file ("" if none) and the AnalyticsData after the line.
\* Only json.JSONDecodeError is caught; the test "event_type" in event
\* raises TypeError on a number or null, and add_event raises AttributeError
\* on a str or a list (no .get).
parse_log_line(d, line) ==
    LET counted == [d EXCEPT !.total_lines = @ + 1] IN
    CASE line.json \in {"blank", "text"} -> [raised |-> "", data |-> counted]
      [] line.json \in {"number", "null"} -> [raised |-> "TypeError", data |-> counted]
      [] line.json \in {"string", "list"} ->
            [raised |-> IF line.mentions THEN "AttributeError" ELSE "", data |-> counted]
      [] OTHER ->
            [raised |-> "",
             data |-> IF line.mentions THEN add_event(counted, line.event) ELSE counted]

RECURSIVE parse_log_lines(_, _)
parse_log_lines(d, lines) ==
    IF lines = <<>> THEN [raised |-> "", data |-> d]
    ELSE LET r == parse_log_line(d, Head(lines)) IN
         IF r.raised # "" THEN r ELSE parse_log_lines(r.data, Tail(lines))

\* Lines 121-158: a missing file gives an empty AnalyticsData.
parse_log_file(file) ==
    IF file = None THEN [raised |-> "", data |-> AnalyticsData]
    ELSE parse_log_lines(AnalyticsData, Get(file))

\* The log files of up to three lines.
LogFiles(lines) ==
    {None} \cup {Some(l) : l \in UNION {[1..n -> lines] : n \in 0..3}}

LogInit ==
    /\ pc = "parse_log_file"
    /\ log \in LogFiles(LogLines)
    /\ env = ""
    /\ data = None
    /\ posts = None
    /\ date_from = 0
    /\ date_to = 0
    /\ PipelineIdle
    /\ FetchIdle
    /\ MarkdownIdle
    /\ DownloadIdle
    /\ CliIdle
    /\ WebIdle

\* parse_log_file("server.log") returns the AnalyticsData or raises.
CallParseLogFile ==
    /\ pc = "parse_log_file"
    /\ LET r == parse_log_file(log) IN
       IF r.raised # ""
       THEN /\ exc' = r.raised
            /\ pc' = "raised"
            /\ data' = data
       ELSE /\ data' = Some(r.data)
            /\ pc' = "get_conversion_rate"
            /\ exc' = exc
    /\ calls' = Append(calls, "parse_log_file")
    /\ UNCHANGED <<args, posts, sorted_posts, client, conn, cause, dirs, files,
                   outcome, html, feed, consumed, md_text, md_once, md_twice,
                   http_name, fs, response, exit_code, env, log, reqs, events>>

\* analytics.get_conversion_rate() on what was parsed.
CallGetConversionRate ==
    /\ pc = "get_conversion_rate"
    /\ response' = Some(get_conversion_rate(Get(data)))
    /\ calls' = Append(calls, "get_conversion_rate")
    /\ pc' = "done"
    /\ UNCHANGED <<args, posts, sorted_posts, client, conn, cause, exc, dirs, files,
                   outcome, html, feed, consumed, md_text, md_once, md_twice,
                   http_name, fs, exit_code, env, log, data, reqs, events>>

LogNext == CallParseLogFile \/ CallGetConversionRate

LogSpec == LogInit /\ [][LogNext]_vars

\* A line that is one JSON object carrying event_type.
IsEventLine(line) == line.json = "object" /\ line.mentions

RECURSIVE EventLines(_)
EventLines(lines) ==
    IF lines = <<>> THEN <<>>
    ELSE (IF IsEventLine(Head(lines)) THEN <<Head(lines)>> ELSE <<>>)
         \o EventLines(Tail(lines))

\* C23: parse_log_file does not fail on what a line holds: it returns, and
\* what it returns is what the event lines alone would give, with
\* total_lines counting every line; a line that is not a JSON object carrying
\* event_type changes no other counter and does not stop the parsing.
C23_MalformedLinesSkipped ==
    (Has("parse_log_file") /\ log # None) =>
        /\ pc # "raised"
        /\ data = Some([parse_log_lines(AnalyticsData, EventLines(Get(log))).data
                           EXCEPT !.total_lines = Len(Get(log))])

\* C27: get_conversion_rate returns None when no export_started was counted,
\* otherwise a rate from 0 to 100.
C27_RateWithinBounds ==
    Has("get_conversion_rate") =>
        LET started == Get(data).events_count["export_started"]
            rate == Get(response)
        IN IF started = 0 THEN rate = None
           ELSE /\ rate # None
                /\ 0 <= Get(rate).num
                /\ Get(rate).num <= 100 * Get(rate).den

----------------------------------------------------------------------------
(* web_app.py: GET /admin/analytics.                                      *)

\* The values of config.ENV (telegram_client.py 24-29 names production and
\* development; the handler's comment adds staging).
Envs == {"production", "development", "staging"}

Page(status, analytics, conversion_rate) ==
    [status |-> status, analytics |-> analytics, conversion_rate |-> conversion_rate]

\* admin_analytics without the test of ENV.
admin_analytics_open(environment, file) ==
    LET r == parse_log_file(file) IN
    IF r.raised # ""
    THEN [read |-> TRUE, raised |-> r.raised, page |-> Page(500, None, None)]
    ELSE [read |-> TRUE, raised |-> "",
          page |-> Page(200, Some(r.data), Some(get_conversion_rate(r.data)))]

\* Lines 395-458: whether server.log was read, the exception that left the
\* handler ("" if none; the server then answers 500), and the response.
admin_analytics(environment, file) ==
    IF environment = "production"
    THEN [read |-> FALSE, raised |-> "", page |-> Page(404, None, None)]
    ELSE LET r == parse_log_file(file) IN
         IF r.raised # ""
         THEN [read |-> TRUE, raised |-> r.raised, page |-> Page(500, None, None)]
         ELSE [read |-> TRUE, raised |-> "",
               page |-> Page(200, Some(r.data), Some(get_conversion_rate(r.data)))]

\* The server.log of a running application: the events it wrote, blank
\* lines and text of other writers.
AdminInit ==
    /\ pc = "admin_analytics"
    /\ env \in Envs
    /\ log \in LogFiles(WrittenLines)
    /\ data = None
    /\ posts = None
    /\ date_from = 0
    /\ date_to = 0
    /\ PipelineIdle
    /\ FetchIdle
    /\ MarkdownIdle
    /\ DownloadIdle
    /\ CliIdle
    /\ WebIdle

GetAdminAnalytics ==
    /\ pc = "admin_analytics"
    /\ LET r == admin_analytics(env, log) IN
       /\ calls' = IF r.read THEN Append(calls, "parse_log_file") ELSE calls
       /\ data' = r.page.analytics
       /\ exc' = r.raised
       /\ response' = Some(r.page)
    /\ pc' = "done"
    /\ UNCHANGED <<args, posts, sorted_posts, client, conn, cause, dirs, files,
                   outcome, html, feed, consumed, md_text, md_once, md_twice,
                   http_name, fs, exit_code, env, log, reqs, events>>

AdminNext == GetAdminAnalytics

AdminSpec == AdminInit /\ [][AdminNext]_vars

\* How many lines of the log are events of the given type.
Logged(t) ==
    IF log = None THEN 0
    ELSE Cardinality({i \in 1..Len(Get(log)) :
                         /\ IsEventLine(Get(log)[i])
                         /\ Get(log)[i].event.event_type = t})

----------------------------------------------------------------------------
(* web_app.py: POST /generate and the GET /files/{pdf_filename} that its  *)
(* success page links to, for two requests handled by one process.  The   *)
(* handler runs without interruption except where generate_report awaits  *)
(* the network, so a request takes two steps: from the form to the call   *)
(* of generate_report, and from the end of the pipeline to the response.  *)
(* The requests share the directory `generated` and the event log.        *)

Form(ch, df, dt, st, direction, fn) ==
    [channel |-> ch, date_from |-> df, date_to |-> dt, sort_type |-> st,
     direction |-> direction, filename |-> fn]

\* The forms sent: a date field is None when it is not a YYYY-MM-DD date.
Forms ==
    {Form(ch, df, Some(0), st, direction, fn) :
        ch \in { <<" ">>, <<"a">>, <<"a", ".", ".", "b">> },
        df \in {None, Some(0), Some(1)},
        st \in {"date", "reactions"},
        direction \in {"desc", "up"},
        fn \in {None, Some(<<"r">>), Some(<<".", ".", "/", "r">>)}}

\* Lines 111-198: the checks of the form, TRUE when one of them returns
\* the form with an error.
form_rejected(f) ==
    \/ f.channel = <<>> \/ Strip(f.channel) = <<>>
    \/ f.date_from = None
    \/ f.date_to = None
    \/ Get(f.date_to) < Get(f.date_from)
    \/ f.sort_type \notin {"date", "reactions", "views"}
    \/ f.direction \notin {"asc", "desc"}

\* Line 217: filename.strip() if filename and filename.strip() else None.
form_filename(f) ==
    IF f.filename # None /\ Strip(Get(f.filename)) # <<>>
    THEN Some(Strip(Get(f.filename))) ELSE None

\* Lines 211-219, in demo mode: the file generate_report writes for the form
\* (core_service.py 100-161) and the document in it.
report_of(f) ==
    LET ch == Strip(f.channel)
        ps == get_demo_posts(Get(f.date_from), Get(f.date_to))
        sorted_posts_ == sort_posts(ps, f.sort_type, f.direction = "asc").value
    IN [path |-> pdf_path(ch, Get(f.date_from), Get(f.date_to), form_filename(f)),
        html |-> create_html(Get(sorted_posts_), ch)]

\* pathlib: Path.name, the last component.
PathName(p) == IF p.parts = <<>> THEN <<>> ELSE p.parts[Len(p.parts)]

LogLine(r, t) == [req |-> r, event_type |-> t]

Request(f) == [form |-> f, pc |-> "generate", outcome |-> "", pdf_filename |-> None,
               got |-> None]

Requests == 1..2

WebInit ==
    /\ pc = "serving"
    /\ reqs \in [Requests -> {Request(f) : f \in Forms}]
    /\ events = <<>>
    /\ files = {}
    /\ posts = None
    /\ date_from = 0
    /\ date_to = 0
    /\ channel = <<>>
    /\ sort_type = "date"
    /\ ascending = TRUE
    /\ config = None
    /\ sorted_posts = None
    /\ client = None
    /\ conn = "none"
    /\ cause = ""
    /\ exc = ""
    /\ calls = <<>>
    /\ dirs = {}
    /\ outcome = "running"
    /\ filename = None
    /\ html = None
    /\ FetchIdle
    /\ MarkdownIdle
    /\ DownloadIdle
    /\ CliIdle
    /\ LogIdle

\* What no step of a web request changes.
web_others == <<channel, date_from, date_to, sort_type, ascending, config, filename,
                posts, sorted_posts, client, conn, cause, exc, calls, dirs, outcome,
                html, pc, feed, consumed, md_text, md_once, md_twice, http_name,
                fs, response, exit_code, env, log, data>>

\* generate without the call of log_export_started.
Submit_NoStarted(r) ==
    /\ reqs[r].pc = "generate"
    /\ IF form_rejected(reqs[r].form)
       THEN reqs' = [reqs EXCEPT ![r].pc = "done", ![r].outcome = "rejected"]
       ELSE reqs' = [reqs EXCEPT ![r].pc = "generate_report"]
    /\ UNCHANGED <<events, files, web_others>>

\* Lines 96-219: the form is checked; a rejected form is answered at once,
\* otherwise export_started is logged and generate_report is called.
Submit(r) ==
    /\ reqs[r].pc = "generate"
    /\ IF form_rejected(reqs[r].form)
       THEN /\ reqs' = [reqs EXCEPT ![r].pc = "done", ![r].outcome = "rejected"]
            /\ events' = events
       ELSE /\ reqs' = [reqs EXCEPT ![r].pc = "generate_report"]
            /\ events' = Append(events, LogLine(r, "export_started"))
    /\ UNCHANGED <<files, web_others>>

\* Lines 211-352: generate_report ends.  When it returns, the document is
\* in its file (an older file of that path is replaced), export_success is
\* logged and the success page shows pdf_path.name; when it raises, the
\* handler of the class logs export_failed and the form is shown again.
Finish(r) ==
    /\ reqs[r].pc = "generate_report"
    /\ \E o \in GenerateOutcomes \ {"ValueError"} :
          IF o = "returned"
          THEN LET report == report_of(reqs[r].form) IN
               /\ files' = {f \in files : Resolve(f.path) # Resolve(report.path)}
                              \cup {report}
               /\ events' = Append(events, LogLine(r, "export_success"))
               /\ reqs' = [reqs EXCEPT ![r].pc = "page", ![r].outcome = o,
                                       ![r].pdf_filename = Some(PathName(report.path))]
          ELSE /\ files' = files
               /\ events' = Append(events, LogLine(r, "export_failed"))
               /\ reqs' = [reqs EXCEPT ![r].pc = "done", ![r].outcome = o]
    /\ UNCHANGED web_others

\* What GENERATED_DIR / name is when files holds the documents written.
FileAt(name) ==
    [kind |-> IF \E f \in files : Resolve(f.path) = Resolve(PathJoin(GENERATED_DIR, name))
              THEN "file" ELSE "none",
     link |-> None]

\* Lines 355-392: the link of the success page is followed; got is the
\* status and, when a file is sent, the document in it.
Download(r) ==
    /\ reqs[r].pc = "page"
    /\ LET name == Get(reqs[r].pdf_filename)
           answer == download_file(name, FileAt(name))
           sent == {f \in files : Resolve(f.path) = answer.path}
       IN reqs' = [reqs EXCEPT
                     ![r].pc = "done",
                     ![r].got = Some([status |-> answer.status,
                                      html |-> IF answer.status = 200
                                               THEN Some((CHOOSE f \in sent : TRUE).html)
                                               ELSE None])]
    /\ UNCHANGED <<events, files, web_others>>

WebNext == \E r \in Requests : Submit(r) \/ Finish(r) \/ Download(r)

WebSpec == WebInit /\ [][WebNext]_vars

\* C24: what a request downloads through the link of its success page is
\* the document of its own form: its channel, its window, its ordering.
C24_OwnDocument ==
    \A r \in Requests :
        (reqs[r].got # None /\ Get(reqs[r].got).status = 200) =>
            Get(reqs[r].got).html = Some(report_of(reqs[r].form).html)

\* How many events of the type the request has in the first n log lines.
Events(r, t, n) ==
    Cardinality({i \in 1..n : events[i].req = r /\ events[i].event_type = t})

\* C29: a request rejected by the checks of the form logs nothing; any other
\* logs export_started once before generate_report is called and, once the
\* call has ended, exactly one of export_success and export_failed, by how
\* it ended; in every prefix of the log the success and failed events are
\* no more than the started events.
C29_LifecycleEvents ==
    /\ \A r \in Requests :
          LET n == Len(events)
              ended == reqs[r].pc \in {"page", "done"} /\ reqs[r].outcome # "rejected"
          IN /\ (reqs[r].pc = "generate" \/ reqs[r].outcome = "rejected") =>
                    \A i \in 1..n : events[i].req # r
             /\ reqs[r].pc = "generate_report" =>
                    /\ Events(r, "export_started", n) = 1
                    /\ Events(r, "export_success", n) + Events(r, "export_failed", n) = 0
             /\ ended =>
                    /\ Events(r, "export_started", n) = 1
                    /\ Events(r, "export_success", n) =
                           (IF reqs[r].outcome = "returned" THEN 1 ELSE 0)
                    /\ Events(r, "export_failed", n) =
                           (IF reqs[r].outcome = "returned" THEN 0 ELSE 1)
             /\ \A k \in 0..n :
                    Events(r, "export_success", k) + Events(r, "export_failed", k)
                        <= Events(r, "export_started", k)
    /\ \A i \in 1..Len(events) : events[i].event_type \in EventTypes

C29_Witness ==
    /\ Len(events) = 4
    /\ events[1] = LogLine(1, "export_started")
    /\ events[2] = LogLine(2, "export_started")
    /\ events[3] = LogLine(2, "export_failed")
    /\ events[4] = LogLine(1, "export_success")

\* C30: the link of every success page leads to the document: the download
\* is answered with the file, not with 403 or 404.
C30_LinkedFileIsServed ==
    \A r \in Requests :
        reqs[r].got # None => Get(reqs[r].got).status = 200

====
